---- MODULE Spec2Model ----
(***************************************************************************)
(* Rules engine of the 4x4 chess puzzle (src/src/gameLogic.ts): board      *)
(* construction, move generation per piece type, makeMove, promotion and   *)
(* the win flag.  Boards are reached from initializeBoard() by the moves   *)
(* the solution preview replays and by moves drawn from getValidMoves, as  *)
(* the search's generateMoves and the UI do; makeMove is also called       *)
(* directly with arbitrary Move values, as any caller of the exported      *)
(* function may do.                                                        *)
(***************************************************************************)
EXTENDS Integers, Sequences, FiniteSets, TLC

VARIABLES board, moveIndex, freeMoves, call, visitedStates, runs, stored,
          active, timers, analysis, pq, gameState, event, preview

\* the state of the event loop that resumes the asynchronous calls, and the
\* last call of analyzeBoardState with its outcome, and a PriorityQueue with
\* the last operation called on it
solverVars == <<active, timers, analysis, pq>>

\* the state of the ChessPuzzle component, the state of the SolutionPreview
\* component, and the last event a component handled
sessionVars == <<solverVars, gameState, event, preview>>

vars == <<board, moveIndex, freeMoves, call, visitedStates, runs, stored, sessionVars>>

(***************************************************************************)
(* Bounds of the exploration.                                              *)
(***************************************************************************)
\* number of moves played off the replayed solution
MaxFreeMoves == 2

(***************************************************************************)
(* types.ts                                                                *)
(***************************************************************************)
BOARD_SIZE == 4

KNIGHT == "knight"
BISHOP == "bishop"
ROOK == "rook"
PAWN == "pawn"
QUEEN == "queen"

PieceType == {KNIGHT, BISHOP, ROOK, PAWN, QUEEN}

NORMAL == "normal"
GOAL == "goal"
MISSING == "missing"

SquareType == {NORMAL, GOAL, MISSING}

INITIAL_BOARD_CONFIG ==
  << <<"knight", "knight", "knight", "knight">>,
     <<"bishop", "bishop", "bishop", "bishop">>,
     <<"rook", "rook", "rook", "rook">>,
     <<"goal", "missing", "missing", "pawn">> >>

\* a Position literal { row, col }
Pos(r, c) == [row |-> r, col |-> c]

\* the value of an absent optional field (square.piece, board[3][0].piece)
NoPiece == [type |-> "undefined"]

Rows == 0 .. (BOARD_SIZE - 1)
Cols == 0 .. (BOARD_SIZE - 1)
Positions == {Pos(r, c) : r \in Rows, c \in Cols}

(***************************************************************************)
(* gameLogic.ts: board construction                                        *)
(***************************************************************************)
\* the id `${config}-${row}-${col}`, kept as its three parts
PieceId(config, row, col) == <<config, row, col>>

initializeBoard ==
  [row \in Rows |-> [col \in Cols |->
     LET config == INITIAL_BOARD_CONFIG[row + 1][col + 1]
     IN  IF config = "goal" THEN [type |-> GOAL, piece |-> NoPiece]
         ELSE IF config = "missing" THEN [type |-> MISSING, piece |-> NoPiece]
         ELSE [type |-> NORMAL,
               piece |-> [type |-> config,
                          position |-> Pos(row, col),
                          id |-> PieceId(config, row, col)]]]]

(***************************************************************************)
(* gameLogic.ts: move generation                                           *)
(***************************************************************************)
\* isValidPosition without the MISSING test
isValidPositionInBoundsOnly(position, b) ==
  /\ position.row >= 0 /\ position.row < BOARD_SIZE
  /\ position.col >= 0 /\ position.col < BOARD_SIZE

isValidPosition(position, b) ==
  LET row == position.row
      col == position.col
  IN  IF row < 0 \/ row >= BOARD_SIZE \/ col < 0 \/ col >= BOARD_SIZE
      THEN FALSE
      ELSE b[row][col].type # MISSING

getKnightMoves(position, b) ==
  LET row == position.row
      col == position.col
      knightMoves == << Pos(row + 2, col + 1), Pos(row + 2, col - 1),
                        Pos(row - 2, col + 1), Pos(row - 2, col - 1),
                        Pos(row + 1, col + 2), Pos(row + 1, col - 2),
                        Pos(row - 1, col + 2), Pos(row - 1, col - 2) >>
      keep(pos) == isValidPosition(pos, b) /\ b[pos.row][pos.col].piece = NoPiece
  IN  SelectSeq(knightMoves, keep)

\* the inner loop with `continue` in place of `break` at an occupied square
RECURSIVE slideMovesJumping(_, _, _, _)
slideMovesJumping(position, dir, i, b) ==
  IF i >= BOARD_SIZE THEN <<>>
  ELSE LET newPos == [row |-> position.row + dir.row * i,
                      col |-> position.col + dir.col * i]
       IN  IF ~(/\ newPos.row >= 0 /\ newPos.row < BOARD_SIZE
                /\ newPos.col >= 0 /\ newPos.col < BOARD_SIZE
                /\ b[newPos.row][newPos.col].type # MISSING) THEN <<>>
           ELSE IF b[newPos.row][newPos.col].piece # NoPiece
                THEN slideMovesJumping(position, dir, i + 1, b)
           ELSE <<newPos>> \o slideMovesJumping(position, dir, i + 1, b)

\* the inner loop of getBishopMoves / getRookMoves: squares i, i+1, ... along dir
RECURSIVE slideMoves(_, _, _, _)
slideMoves(position, dir, i, b) ==
  IF i >= BOARD_SIZE THEN <<>>
  ELSE LET newPos == Pos(position.row + dir.row * i, position.col + dir.col * i)
       IN  IF ~isValidPosition(newPos, b) THEN <<>>
           ELSE IF b[newPos.row][newPos.col].piece # NoPiece THEN <<>>
           ELSE <<newPos>> \o slideMoves(position, dir, i + 1, b)

getBishopMoves(position, b) ==
  slideMoves(position, Pos(1, 1), 1, b) \o slideMoves(position, Pos(1, -1), 1, b)
    \o slideMoves(position, Pos(-1, 1), 1, b) \o slideMoves(position, Pos(-1, -1), 1, b)

getRookMoves(position, b) ==
  slideMoves(position, Pos(1, 0), 1, b) \o slideMoves(position, Pos(-1, 0), 1, b)
    \o slideMoves(position, Pos(0, 1), 1, b) \o slideMoves(position, Pos(0, -1), 1, b)

\* a pawn that may also step left, as in the older rules of GAME_OVERVIEW.md
getPawnMovesUpOrLeft(position, b) ==
  LET free(pos) == /\ pos.row >= 0 /\ pos.row < BOARD_SIZE
                   /\ pos.col >= 0 /\ pos.col < BOARD_SIZE
                   /\ b[pos.row][pos.col].type # MISSING
                   /\ b[pos.row][pos.col].piece = NoPiece
  IN  SelectSeq(<<[row |-> position.row - 1, col |-> position.col],
                  [row |-> position.row, col |-> position.col - 1]>>, free)

getPawnMoves(position, b) ==
  LET upPos == Pos(position.row - 1, position.col)
  IN  IF isValidPosition(upPos, b) /\ b[upPos.row][upPos.col].piece = NoPiece
      THEN <<upPos>>
      ELSE <<>>

getQueenMoves(position, b) ==
  getRookMoves(position, b) \o getBishopMoves(position, b)

getValidMoves(piece, b) ==
  CASE piece.type = KNIGHT -> getKnightMoves(piece.position, b)
    [] piece.type = BISHOP -> getBishopMoves(piece.position, b)
    [] piece.type = ROOK -> getRookMoves(piece.position, b)
    [] piece.type = PAWN -> getPawnMoves(piece.position, b)
    [] piece.type = QUEEN -> getQueenMoves(piece.position, b)
    [] OTHER -> <<>>

\* id.startsWith("pawn"): the id begins with its config word
isOriginalPawn(piece) == piece.id[1] = "pawn"

\* promotion in the leftmost column, as GAME_OVERVIEW.md words it
shouldPromotePawnInColumn0(piece, newPosition) ==
  piece.type = PAWN /\ newPosition.col = 0

\* promotion of whatever piece reaches the top row
shouldPromoteAnyPiece(piece, newPosition) ==
  newPosition.row = 0

shouldPromotePawn(piece, newPosition) ==
  piece.type = PAWN /\ newPosition.row = 0

(***************************************************************************)
(* gameLogic.ts: makeMove                                                  *)
(*                                                                         *)
(* Squares are objects: the input board and the board built by makeMove    *)
(* are tables of references into a heap of Square objects.  "board" names  *)
(* the Square objects of the input, "newBoard" those allocated by the      *)
(* copy.  Pieces are objects too, but makeMove never writes to a Piece     *)
(* (updatedPiece is a fresh object), so pieces are kept as values.         *)
(***************************************************************************)
Ref(owner, row, col) == [owner |-> owner, row |-> row, col |-> col]

Refs == {Ref(o, r, c) : o \in {"board", "newBoard"}, r \in Rows, c \in Cols}

\* the heap holding the input board's squares (newBoard cells not yet written)
heapOf(b) == [ref \in Refs |-> b[ref.row][ref.col]]

\* a copy that shares the Square objects of the input: board.map(row => [...row])
copyBoardShallow(b) == [row \in Rows |-> [col \in Cols |-> Ref("board", row, col)]]

\* board.map(row => row.map(square => ({...square, piece: ...}))): the table
\* of references of the new board; every square is a fresh object
copyBoard(b) == [row \in Rows |-> [col \in Cols |-> Ref("newBoard", row, col)]]

\* the board a table of references denotes in a heap
deref(table, heap) == [row \in Rows |-> [col \in Cols |-> heap[table[row][col]]]]

\* the table of references of the caller's board
inputTable == [row \in Rows |-> [col \in Cols |-> Ref("board", row, col)]]

\* the moved piece given a new id when it is promoted
updatedPieceRenamedOnPromotion(piece, to, isPromotion) ==
  [type |-> IF isPromotion THEN QUEEN ELSE piece.type,
   position |-> to,
   id |-> IF isPromotion THEN <<QUEEN, to.row, to.col>> ELSE piece.id]

\* the moved piece keeping its old position: {...piece, type: ...}
updatedPieceKeepingPosition(piece, to, isPromotion) ==
  [type |-> IF isPromotion THEN QUEEN ELSE piece.type,
   position |-> piece.position,
   id |-> piece.id]

\* const updatedPiece = {...piece, position: to, type: ...}
updatedPieceOf(piece, to, isPromotion) ==
  [type |-> IF isPromotion THEN QUEEN ELSE piece.type,
   position |-> to,
   id |-> piece.id]

\* the win flag without the identity test
isGameWonAtForAnyPiece(to, squareType, piece) ==
  /\ to.row = 3
  /\ to.col = 0
  /\ squareType = GOAL

\* const isGameWon = ...; squareType is newBoard[to.row][to.col].type
isGameWonAt(to, squareType, piece) ==
  /\ to.row = 3
  /\ to.col = 0
  /\ squareType = GOAL
  /\ isOriginalPawn(piece)

\* makeMove as run on the heap: the MoveResult returned and the caller's
\* board as it stands after the call
makeMoveRun(b, move) ==
  LET from == move.from
      to == move.to
      piece == move.piece
      validMoves == getValidMoves(piece, b)
      isValidMove == \E k \in DOMAIN validMoves :
                       validMoves[k].row = to.row /\ validMoves[k].col = to.col
  IN  IF ~isValidMove
      THEN [result |-> [isValid |-> FALSE], inputBoard |-> b]
      ELSE
        LET newBoard == copyBoard(b)
            heap1 == [heapOf(b) EXCEPT ![newBoard[from.row][from.col]].piece = NoPiece]
            isPromotion == shouldPromotePawn(piece, to)
            updatedPiece == updatedPieceOf(piece, to, isPromotion)
            heap2 == [heap1 EXCEPT ![newBoard[to.row][to.col]].piece = updatedPiece]
            isGameWon == isGameWonAt(to, heap2[newBoard[to.row][to.col]].type, piece)
        IN  [result |-> [isValid |-> TRUE,
                         resultingBoard |-> deref(newBoard, heap2),
                         isPromotion |-> isPromotion,
                         isGameWon |-> isGameWon],
             inputBoard |-> deref(inputTable, heap2)]

makeMove(b, move) == makeMoveRun(b, move).result

\* the elements of an array
Range(seq) == {seq[k] : k \in DOMAIN seq}

\* the pieces of the board in the order of the row and column loops
getAllPlayerPieces(b) ==
  LET squares == [k \in 1 .. BOARD_SIZE * BOARD_SIZE |->
                    b[(k - 1) \div BOARD_SIZE][(k - 1) % BOARD_SIZE].piece]
      isPiece(piece) == piece # NoPiece
  IN  SelectSeq(squares, isPiece)

\* the pieces of the board, as a set
PiecesOn(b) == Range(getAllPlayerPieces(b))

(***************************************************************************)
(* gameLogic.ts: the path check                                            *)
(***************************************************************************)
\* the first piece in the order of the row and column loops that is the mover
getPawnPiece(b) ==
  LET movers == SelectSeq(getAllPlayerPieces(b), isOriginalPawn)
  IN  IF Len(movers) = 0 THEN NoPiece ELSE movers[1]

\* a square of the walked path that stops the walk
blocksPath(position, b) ==
  IF ~isValidPosition(position, b) THEN TRUE
  ELSE b[position.row][position.col].piece # NoPiece

\* canPawnReachGoal without the loop over the squares above the mover
canPawnReachGoalFromTopRow(b) ==
  LET pawn == getPawnPiece(b)
      col == pawn.position.col
  IN  IF pawn = NoPiece THEN FALSE
      ELSE IF col # 0 /\ \E checkCol \in 0 .. col - 1 : blocksPath(Pos(0, checkCol), b)
      THEN FALSE
      ELSE ~\E checkRow \in 1 .. 3 : blocksPath(Pos(checkRow, 0), b)

canPawnReachGoal(b) ==
  LET pawn == getPawnPiece(b)
      goalPosition == Pos(3, 0)
      row == pawn.position.row
      col == pawn.position.col
  IN  IF pawn = NoPiece THEN FALSE
      ELSE IF \E checkRow \in 0 .. row - 1 : blocksPath(Pos(checkRow, col), b)
      THEN FALSE
      ELSE IF col # goalPosition.col
              /\ \E checkCol \in goalPosition.col .. col - 1 : blocksPath(Pos(0, checkCol), b)
      THEN FALSE
      ELSE ~\E checkRow \in 1 .. goalPosition.row : blocksPath(Pos(checkRow, goalPosition.col), b)

(***************************************************************************)
(* aiSolver: the win test and move generation of the search                *)
(***************************************************************************)
\* the win test without isOriginalPawn: any piece on the goal square
isGoalStateOfAnyPiece(b) ==
  LET goalSquare == b[3][0]
  IN  /\ goalSquare.piece # NoPiece
      /\ goalSquare.type = "goal"

isGoalState(b) ==
  LET goalSquare == b[3][0]
  IN  /\ goalSquare.piece # NoPiece
      /\ isOriginalPawn(goalSquare.piece)
      /\ goalSquare.type = "goal"

\* the concatenation of an array of arrays
RECURSIVE Flatten(_)
Flatten(seqs) == IF Len(seqs) = 0 THEN <<>> ELSE Head(seqs) \o Flatten(Tail(seqs))

\* the moves with from and to exchanged
generateMovesSwappedEnds(b) ==
  LET pieces == getAllPlayerPieces(b)
      movesOf(piece) ==
        LET validMoves == getValidMoves(piece, b)
        IN  [k \in 1 .. Len(validMoves) |->
               [from |-> validMoves[k], to |-> piece.position, piece |-> piece]]
  IN  Flatten([i \in 1 .. Len(pieces) |-> movesOf(pieces[i])])

\* the moves in the order of the loops: piece by piece, destination by destination
generateMoves(b) ==
  LET pieces == getAllPlayerPieces(b)
      movesOf(piece) ==
        LET validMoves == getValidMoves(piece, b)
        IN  [k \in 1 .. Len(validMoves) |->
               [from |-> piece.position, to |-> validMoves[k], piece |-> piece]]
  IN  Flatten([i \in 1 .. Len(pieces) |-> movesOf(pieces[i])])

(***************************************************************************)
(* aiSolver: PriorityQueue, an array-backed binary min-heap of             *)
(* {item, priority}; index k of the array is element k + 1 of the sequence *)
(***************************************************************************)
swap(heap, i, j) == [heap EXCEPT ![i + 1] = heap[j + 1], ![j + 1] = heap[i + 1]]

RECURSIVE heapifyUp(_, _)
heapifyUp(heap, index) ==
  IF index = 0
  THEN heap
  ELSE LET parentIndex == (index - 1) \div 2
       IN  IF heap[parentIndex + 1].priority > heap[index + 1].priority
           THEN heapifyUp(swap(heap, parentIndex, index), parentIndex)
           ELSE heap

\* heapifyDown that looks at the left child only
RECURSIVE heapifyDownLeftOnly(_, _)
heapifyDownLeftOnly(heap, index) ==
  LET leftChild == 2 * index + 1
      smallest == IF leftChild < Len(heap)
                     /\ heap[leftChild + 1].priority < heap[index + 1].priority
                  THEN leftChild ELSE index
  IN  IF smallest # index
      THEN heapifyDownLeftOnly(swap(heap, index, smallest), smallest)
      ELSE heap

RECURSIVE heapifyDown(_, _)
heapifyDown(heap, index) ==
  LET leftChild == 2 * index + 1
      rightChild == 2 * index + 2
      afterLeft == IF leftChild < Len(heap)
                      /\ heap[leftChild + 1].priority < heap[index + 1].priority
                   THEN leftChild ELSE index
      smallest == IF rightChild < Len(heap)
                     /\ heap[rightChild + 1].priority < heap[afterLeft + 1].priority
                  THEN rightChild ELSE afterLeft
  IN  IF smallest # index
      THEN heapifyDown(swap(heap, index, smallest), smallest)
      ELSE heap

enqueue(heap, item, priority) ==
  heapifyUp(Append(heap, [item |-> item, priority |-> priority]), Len(heap))

\* a null item is the item 0 (items are the numbers 1, 2, ... of search states)
NullItem == 0

\* dequeue that pops the last element without moving it to the root
dequeueLosingLast(heap) ==
  IF Len(heap) = 0 THEN [item |-> NullItem, heap |-> heap]
  ELSE [item |-> heap[1].item, heap |-> SubSeq(heap, 1, Len(heap) - 1)]

\* the item returned and the heap left behind
dequeue(heap) ==
  IF Len(heap) = 0 THEN [item |-> NullItem, heap |-> heap]
  ELSE IF Len(heap) = 1 THEN [item |-> heap[1].item, heap |-> <<>>]
  ELSE [item |-> heap[1].item,
        heap |-> heapifyDown([SubSeq(heap, 1, Len(heap) - 1) EXCEPT ![1] = heap[Len(heap)]], 0)]

isEmpty(heap) == Len(heap) = 0

(***************************************************************************)
(* aiSolver: fingerprint, heuristic and path of ChessPuzzleAISolver        *)
(***************************************************************************)
\* private maxStatesExplored = 100_000_000, scaled to the size of a run that
\* can be enumerated
maxStatesExplored == 60

\* the values interpolated into a token
pieceToken(piece, row, col) == [type |-> piece.type, row |-> row, col |-> col]

\* the token without the row: `${piece.type}@${col}`
tokenTextWithoutRow(token) ==
  token.type \o "@" \o ToString(token.col)

\* the string `${piece.type}@${row},${col}`
tokenText(token) ==
  token.type \o "@" \o ToString(token.row) \o "," \o ToString(token.col)

\* the place of a type name in the order of UTF-16 code units: the five
\* names differ in their first letter, b < k < p < q < r
typeRank(type) ==
  CASE type = BISHOP -> 1
    [] type = KNIGHT -> 2
    [] type = PAWN -> 3
    [] type = QUEEN -> 4
    [] type = ROOK -> 5

\* Array.prototype.sort's default order on two token strings: the type names
\* decide; on equal names the one-digit row, then the one-digit column
tokenBefore(a, b) ==
  \/ typeRank(a.type) < typeRank(b.type)
  \/ a.type = b.type /\ a.row < b.row
  \/ a.type = b.type /\ a.row = b.row /\ a.col < b.col

RECURSIVE join(_, _)
join(strings, separator) ==
  IF Len(strings) = 0 THEN ""
  ELSE IF Len(strings) = 1 THEN strings[1]
  ELSE strings[1] \o separator \o join(Tail(strings), separator)

\* the tokens pushed by the row and column loops of hashBoard
boardTokens(b) ==
  LET squares == [k \in 1 .. BOARD_SIZE * BOARD_SIZE |->
                    [piece |-> b[(k - 1) \div BOARD_SIZE][(k - 1) % BOARD_SIZE].piece,
                     row |-> (k - 1) \div BOARD_SIZE,
                     col |-> (k - 1) % BOARD_SIZE]]
      hasPiece(square) == square.piece # NoPiece
      occupied == SelectSeq(squares, hasPiece)
  IN  [k \in 1 .. Len(occupied) |->
         pieceToken(occupied[k].piece, occupied[k].row, occupied[k].col)]

hashBoard(b) ==
  LET sorted == SortSeq(boardTokens(b), tokenBefore)
  IN  join([k \in 1 .. Len(sorted) |-> tokenText(sorted[k])], "|")

findPawn(b) ==
  LET movers == SelectSeq(getAllPlayerPieces(b), isOriginalPawn)
  IN  IF Len(movers) = 0 THEN NoPiece ELSE movers[1]

abs(n) == IF n < 0 THEN -n ELSE n

\* the distance without Math.abs
manhattanDistanceSigned(from, to) == (from.row - to.row) + (from.col - to.col)

\* the larger of the two legs in place of their sum
manhattanDistanceLargerLeg(from, to) ==
  IF abs(from.row - to.row) > abs(from.col - to.col)
  THEN abs(from.row - to.row) ELSE abs(from.col - to.col)

manhattanDistance(from, to) == abs(from.row - to.row) + abs(from.col - to.col)

\* Infinity, the heuristic of a board without the mover: larger than every
\* finite cost of a run
Infinity == 1000000

\* every blocking piece adds one unit
calculateHeuristicUnitPenalties(b) ==
  LET pawn == findPawn(b)
  IN  IF pawn = NoPiece THEN Infinity
      ELSE IF pawn.type = QUEEN THEN manhattanDistance(pawn.position, Pos(3, 0))
      ELSE LET pawnPos == pawn.position
               promotionDistance == pawnPos.row
               postPromotionDistance == 3 + pawnPos.col
               above == {checkRow \in 0 .. pawnPos.row - 1 :
                           b[checkRow][pawnPos.col].piece # NoPiece}
               leftOnTopRow == {checkCol \in 0 .. pawnPos.col - 1 :
                                  b[0][checkCol].piece # NoPiece}
               onGoalColumn == {checkRow \in 1 .. 3 : b[checkRow][0].piece # NoPiece}
               blockingPenalty == Cardinality(above) + Cardinality(leftOnTopRow)
                                    + Cardinality(onGoalColumn)
           IN  promotionDistance + postPromotionDistance + blockingPenalty

calculateHeuristic(b) ==
  LET pawn == findPawn(b)
  IN  IF pawn = NoPiece THEN Infinity
      ELSE IF pawn.type = QUEEN THEN manhattanDistance(pawn.position, Pos(3, 0))
      ELSE LET pawnPos == pawn.position
               promotionDistance == pawnPos.row
               postPromotionDistance == 3 + pawnPos.col
               above == {checkRow \in 0 .. pawnPos.row - 1 :
                           b[checkRow][pawnPos.col].piece # NoPiece}
               leftOnTopRow == {checkCol \in 0 .. pawnPos.col - 1 :
                                  b[0][checkCol].piece # NoPiece}
               onGoalColumn == {checkRow \in 1 .. 3 : b[checkRow][0].piece # NoPiece}
               blockingPenalty == 2 * Cardinality(above) + Cardinality(leftOnTopRow)
                                    + Cardinality(onGoalColumn)
           IN  promotionDistance + postPromotionDistance + blockingPenalty

\* a SearchState; parent is the number of the parent state in the array of
\* the states created by the run, 0 for the start state
NoMove == [piece |-> NoPiece]

SearchState(b, gCost, hCost, move, parent) ==
  [board |-> b, gCost |-> gCost, hCost |-> hCost, fCost |-> gCost + hCost,
   move |-> move, parent |-> parent]

\* path.push instead of path.unshift: the moves from the goal back to the start
RECURSIVE reconstructPathBackwards(_, _)
reconstructPathBackwards(nodes, current) ==
  IF current # 0 /\ nodes[current].move # NoMove
  THEN <<nodes[current].move>> \o reconstructPathBackwards(nodes, nodes[current].parent)
  ELSE <<>>

\* the walk stops at the child of the start state and leaves its move out
RECURSIVE reconstructPathBelowRoot(_, _)
reconstructPathBelowRoot(nodes, current) ==
  IF current # 0 /\ nodes[current].move # NoMove /\ nodes[nodes[current].parent].move # NoMove
  THEN Append(reconstructPathBelowRoot(nodes, nodes[current].parent), nodes[current].move)
  ELSE <<>>

\* while (current && current.move) { path.unshift(current.move); current = current.parent }
RECURSIVE reconstructPath(_, _)
reconstructPath(nodes, current) ==
  IF current # 0 /\ nodes[current].move # NoMove
  THEN Append(reconstructPath(nodes, nodes[current].parent), nodes[current].move)
  ELSE <<>>

(***************************************************************************)
(* aiSolver: the runs of solvePuzzle, the A-star search, and of            *)
(* solvePuzzleBFS.  A run is                                               *)
(* the record of the locals of one call: nodes is the array of the         *)
(* SearchState objects it created, openSet / queue hold their numbers      *)
(***************************************************************************)
ASTAR == "solvePuzzle"
BFS == "solvePuzzleBFS"

\* solution: null
Null == [null |-> TRUE]
Solution(path) == [null |-> FALSE, moves |-> path]

NoResult == [returned |-> FALSE]

succeeded(nodes, current, statesExplored) ==
  [returned |-> TRUE,
   solution |-> Solution(reconstructPath(nodes, current)),
   statesExplored |-> statesExplored,
   solutionLength |-> nodes[current].gCost]

failed(statesExplored) ==
  [returned |-> TRUE, solution |-> Null,
   statesExplored |-> statesExplored, solutionLength |-> -1]

\* Map.set
mapSet(map, key, value) ==
  [k \in DOMAIN map \cup {key} |-> IF k = key THEN value ELSE map[k]]

emptyMap == [k \in {} |-> 0]

\* the locals of solvePuzzle up to its loop
startSolvePuzzle(initialBoard) ==
  LET startState == SearchState(initialBoard, 0, calculateHeuristic(initialBoard), NoMove, 0)
  IN  [strategy |-> ASTAR, initialBoard |-> initialBoard, nodes |-> <<startState>>,
       openSet |-> enqueue(<<>>, 1, startState.fCost), queue |-> <<>>, visited |-> {},
       statesExplored |-> 0, currentState |-> 0, result |-> NoResult]

\* the locals of solvePuzzleBFS up to its loop
startSolvePuzzleBFS(initialBoard) ==
  [strategy |-> BFS, initialBoard |-> initialBoard,
   nodes |-> <<SearchState(initialBoard, 0, 0, NoMove, 0)>>,
   openSet |-> <<>>, queue |-> <<1>>, visited |-> {},
   statesExplored |-> 0, currentState |-> 0, result |-> NoResult]

\* the body of the loop over possibleMoves of solvePuzzle, from move k on:
\* the children that are worth exploring are created and enqueued
RECURSIVE expand(_, _, _, _, _)
expand(run, visitedMap, current, possibleMoves, k) ==
  IF k > Len(possibleMoves) THEN run
  ELSE
    LET currentState == run.nodes[current]
        move == possibleMoves[k]
        moveResult == makeMove(currentState.board, move)
        newGCost == currentState.gCost + 1
    IN  IF ~moveResult.isValid
        THEN expand(run, visitedMap, current, possibleMoves, k + 1)
        ELSE
          LET newState == SearchState(moveResult.resultingBoard, newGCost,
                                      calculateHeuristic(moveResult.resultingBoard),
                                      move, current)
              newStateHash == hashBoard(newState.board)
          IN  IF newStateHash \in DOMAIN visitedMap /\ newGCost >= visitedMap[newStateHash]
              THEN expand(run, visitedMap, current, possibleMoves, k + 1)
              ELSE expand([run EXCEPT
                             !.nodes = Append(@, newState),
                             !.openSet = enqueue(@, Len(run.nodes) + 1, newState.fCost)],
                          visitedMap, current, possibleMoves, k + 1)

\* one pass of the while loop of solvePuzzle: the run and this.visitedStates
\* after it
solvePuzzleIteration(run, visitedMap) ==
  LET taken == dequeue(run.openSet)
      current == taken.item
      currentState == run.nodes[current]
      statesExplored == run.statesExplored + 1
      counted == [run EXCEPT !.openSet = taken.heap, !.currentState = current,
                             !.statesExplored = statesExplored]
      currentHash == hashBoard(currentState.board)
  IN  IF isGoalState(currentState.board)
      THEN [run |-> [counted EXCEPT !.result = succeeded(run.nodes, current, statesExplored)],
            visitedStates |-> visitedMap]
      ELSE IF currentHash \in DOMAIN visitedMap /\ currentState.gCost >= visitedMap[currentHash]
      THEN [run |-> counted, visitedStates |-> visitedMap]
      ELSE LET marked == mapSet(visitedMap, currentHash, currentState.gCost)
           IN  [run |-> expand(counted, marked, current,
                               generateMoves(currentState.board), 1),
                visitedStates |-> marked]

\* the body of the loop over possibleMoves of solvePuzzleBFS, from move k on
RECURSIVE expandBFS(_, _, _, _)
expandBFS(run, current, possibleMoves, k) ==
  IF k > Len(possibleMoves) THEN run
  ELSE
    LET currentState == run.nodes[current]
        move == possibleMoves[k]
        moveResult == makeMove(currentState.board, move)
    IN  IF ~moveResult.isValid
        THEN expandBFS(run, current, possibleMoves, k + 1)
        ELSE IF hashBoard(moveResult.resultingBoard) \in run.visited
        THEN expandBFS(run, current, possibleMoves, k + 1)
        ELSE expandBFS([run EXCEPT
                          !.nodes = Append(@, SearchState(moveResult.resultingBoard,
                                                          currentState.gCost + 1, 0,
                                                          move, current)),
                          !.queue = Append(@, Len(run.nodes) + 1)],
                       current, possibleMoves, k + 1)

\* queue.pop(): the state taken is the one pushed last
takeLast(queue) == [item |-> queue[Len(queue)], rest |-> SubSeq(queue, 1, Len(queue) - 1)]

\* queue.shift()
shift(queue) == [item |-> Head(queue), rest |-> Tail(queue)]

\* one pass of the while loop of solvePuzzleBFS
solvePuzzleBFSIteration(run) ==
  LET taken == shift(run.queue)
      current == taken.item
      currentState == run.nodes[current]
      statesExplored == run.statesExplored + 1
      counted == [run EXCEPT !.queue = taken.rest, !.currentState = current,
                             !.statesExplored = statesExplored]
      currentHash == hashBoard(currentState.board)
  IN  IF currentHash \in run.visited
      THEN counted
      ELSE LET marked == [counted EXCEPT !.visited = @ \cup {currentHash}]
           IN  IF isGoalState(currentState.board)
               THEN [marked EXCEPT !.result = succeeded(run.nodes, current, statesExplored)]
               ELSE expandBFS(marked, current, generateMoves(currentState.board), 1)

\* the loop guard with <= in place of <
solvePuzzleContinuesPastCap(run) ==
  ~isEmpty(run.openSet) /\ run.statesExplored <= maxStatesExplored

\* the condition of the while loop
solvePuzzleContinues(run) ==
  ~isEmpty(run.openSet) /\ run.statesExplored < maxStatesExplored

solvePuzzleBFSContinues(run) ==
  Len(run.queue) > 0 /\ run.statesExplored < maxStatesExplored

(***************************************************************************)
(* aiSolver: analyzeBoardState.  The method is public and is called with   *)
(* values that are no Board: the argument is a JavaScript value, null,     *)
(* undefined, an object that is no array, an array of any length, and a    *)
(* square of a row is an object {type, piece} or null.  A property read    *)
(* on null or undefined throws a TypeError.                                *)
(***************************************************************************)
jsNull == [kind |-> "null"]

jsUndefined == [kind |-> "undefined"]

\* an object that is not an array
jsObject == [kind |-> "object"]

\* an array; element k of the array is element k + 1 of items
jsArray(items) == [kind |-> "array", items |-> items]

jsSquare(square) == [kind |-> "square", square |-> square]

\* a Board as the value the method receives
toValue(b) ==
  jsArray([row \in 1 .. BOARD_SIZE |->
     jsArray([col \in 1 .. BOARD_SIZE |-> jsSquare(b[row - 1][col - 1])])])

\* !value
falsy(value) == value.kind \in {"null", "undefined"}

\* Array.isArray(value)
isArray(value) == value.kind = "array"

\* board[row][col]
squareAt(value, row, col) == value.items[row + 1].items[col + 1]

\* reading board[row][col].piece throws
readThrows(value, row, col) == squareAt(value, row, col).kind # "square"

\* a piece counts only while the solver has started no run
hasPieceBeforeRuns(value, row, col) ==
  squareAt(value, row, col).square.piece # NoPiece /\ Len(runs) = 0

\* board[row][col].piece is truthy
hasPiece(value, row, col) == squareAt(value, row, col).square.piece # NoPiece

Threw == [threw |-> TRUE]

Returns(value) == [threw |-> FALSE, value |-> value]

\* findPawn on the value the method received: the squares are read in the
\* order of the loops up to the first mover; isOriginalPawn reads
\* piece.id.startsWith
findPawnOf(value) ==
  LET row(k) == (k - 1) \div 4
      col(k) == (k - 1) % 4
      pieceAt(k) == squareAt(value, row(k), col(k)).square.piece
      throwsAt(k) ==
        \/ readThrows(value, row(k), col(k))
        \/ (hasPiece(value, row(k), col(k)) /\ "id" \notin DOMAIN pieceAt(k))
      foundAt(k) ==
        /\ ~throwsAt(k)
        /\ hasPiece(value, row(k), col(k))
        /\ isOriginalPawn(pieceAt(k))
      stops == {k \in 1 .. 16 : throwsAt(k) \/ foundAt(k)}
      first == CHOOSE k \in stops : \A other \in stops : k <= other
  IN  IF stops = {} THEN Returns(Null)
      ELSE IF throwsAt(first) THEN Threw
      ELSE Returns(pieceAt(first))

\* the result for a board without mover and for a value that is no board
sentinel ==
  [pawnPosition |-> Null, isPawnPromoted |-> FALSE, movesToPromotion |-> Infinity,
   movesToGoal |-> Infinity, blockingPieces |-> 0]

analyzeBoardState(value) ==
  IF falsy(value) \/ ~isArray(value) THEN Returns(sentinel)
  ELSE IF Len(value.items) # 4 THEN Returns(sentinel)
  ELSE IF \E i \in 1 .. 4 : \/ falsy(value.items[i])
                            \/ ~isArray(value.items[i])
                            \/ Len(value.items[i].items) # 4
  THEN Returns(sentinel)
  ELSE
    LET found == findPawnOf(value)
    IN  IF found.threw THEN Threw
        ELSE IF found.value = Null THEN Returns(sentinel)
        ELSE
          LET pawn == found.value
              isPawnPromoted == pawn.type = QUEEN
              pawnPos == pawn.position
              goalPos == Pos(3, 0)
              movesToPromotion == IF isPawnPromoted THEN 0 ELSE pawnPos.row
              movesToGoal == IF isPawnPromoted THEN manhattanDistance(pawnPos, goalPos)
                             ELSE pawnPos.row + 3 + pawnPos.col
              upward == IF isPawnPromoted THEN {}
                        ELSE {Pos(checkRow, pawnPos.col) : checkRow \in 0 .. pawnPos.row - 1}
              toGoal == {Pos(checkRow, 0) : checkRow \in 1 .. 3}
              onTopRow == {Pos(0, checkCol) : checkCol \in 0 .. pawnPos.col - 1}
              blocking(squares) ==
                Cardinality({pos \in squares : hasPiece(value, pos.row, pos.col)})
          IN  IF \E pos \in upward \cup toGoal \cup onTopRow :
                   readThrows(value, pos.row, pos.col)
              THEN Threw
              ELSE Returns([pawnPosition |-> pawnPos,
                            isPawnPromoted |-> isPawnPromoted,
                            movesToPromotion |-> movesToPromotion,
                            movesToGoal |-> movesToGoal,
                            blockingPieces |-> blocking(upward) + blocking(toGoal)
                                                 + blocking(onTopRow)])

(***************************************************************************)
(* SolutionPreview: the notation of a move                                 *)
(***************************************************************************)
\* move.isPromotion, an optional property of Move: a move built without it
\* reads as undefined, which is falsy
isPromotionOf(move) == IF "isPromotion" \in DOMAIN move THEN move.isPromotion ELSE FALSE

moveToNotation(move) ==
  LET pieceSymbols == [t \in PieceType |->
                         CASE t = KNIGHT -> "N" [] t = BISHOP -> "B" [] t = ROOK -> "R"
                           [] t = PAWN -> "" [] t = QUEEN -> "Q"]
      colToFile(col) == <<"a", "b", "c", "d">>[col + 1]
      rowToRank(row) == ToString(4 - row)
      piece == pieceSymbols[move.piece.type]
      fromSquare == colToFile(move.from.col) \o rowToRank(move.from.row)
      toSquare == colToFile(move.to.col) \o rowToRank(move.to.row)
  IN  IF move.piece.type = PAWN
      THEN fromSquare \o "-" \o toSquare \o (IF isPromotionOf(move) THEN "=Q" ELSE "")
      ELSE piece \o fromSquare \o "-" \o toSquare

(***************************************************************************)
(* ChessPuzzle: the interactive game.  selectedPiece undefined is NoPiece. *)
(***************************************************************************)
initializeGameState ==
  [board |-> initializeBoard, currentTurn |-> "player", selectedPiece |-> NoPiece,
   validMoves |-> <<>>, moveHistory |-> <<>>, isGameWon |-> FALSE, isGameOver |-> FALSE]

\* handleSquareClick without the test of isGameWon
handleSquareClickWhenWon(state, position) ==
  LET clickedPiece == state.board[position.row][position.col].piece
      selectedPiece == state.selectedPiece
      selected == [state EXCEPT !.selectedPiece = clickedPiece,
                                !.validMoves = getValidMoves(clickedPiece, state.board)]
      deselected == [state EXCEPT !.selectedPiece = NoPiece, !.validMoves = <<>>]
  IN  IF selectedPiece = NoPiece
      THEN IF clickedPiece # NoPiece THEN selected ELSE state
      ELSE IF selectedPiece.position = position THEN deselected
      ELSE IF clickedPiece # NoPiece THEN selected
      ELSE LET move == [from |-> selectedPiece.position, to |-> position,
                        piece |-> selectedPiece]
               moveResult == makeMove(state.board, move)
           IN  IF moveResult.isValid
               THEN [state EXCEPT !.board = moveResult.resultingBoard,
                                  !.selectedPiece = NoPiece,
                                  !.validMoves = <<>>,
                                  !.moveHistory = Append(@, move),
                                  !.isGameWon = moveResult.isGameWon,
                                  !.isGameOver = moveResult.isGameWon]
               ELSE deselected

\* handleSquareClick that keeps the selection when it makes a move
handleSquareClickKeepingSelection(state, position) ==
  IF state.isGameWon THEN state
  ELSE
    LET clickedPiece == state.board[position.row][position.col].piece
        selectedPiece == state.selectedPiece
        selected == [state EXCEPT !.selectedPiece = clickedPiece,
                                  !.validMoves = getValidMoves(clickedPiece, state.board)]
        deselected == [state EXCEPT !.selectedPiece = NoPiece, !.validMoves = <<>>]
    IN  IF selectedPiece = NoPiece
        THEN IF clickedPiece # NoPiece THEN selected ELSE state
        ELSE IF selectedPiece.position = position THEN deselected
        ELSE IF clickedPiece # NoPiece THEN selected
        ELSE LET move == [from |-> selectedPiece.position, to |-> position,
                          piece |-> selectedPiece]
                 moveResult == makeMove(state.board, move)
             IN  IF moveResult.isValid
                 THEN [state EXCEPT !.board = moveResult.resultingBoard,
                                    !.moveHistory = Append(@, move),
                                    !.isGameWon = moveResult.isGameWon,
                                    !.isGameOver = moveResult.isGameWon]
                 ELSE deselected

\* the game state the handler sets for a click on position
handleSquareClick(state, position) ==
  IF state.isGameWon THEN state
  ELSE
    LET clickedPiece == state.board[position.row][position.col].piece
        selectedPiece == state.selectedPiece
        selected == [state EXCEPT !.selectedPiece = clickedPiece,
                                  !.validMoves = getValidMoves(clickedPiece, state.board)]
        deselected == [state EXCEPT !.selectedPiece = NoPiece, !.validMoves = <<>>]
    IN  IF selectedPiece = NoPiece
        THEN IF clickedPiece # NoPiece THEN selected ELSE state
        ELSE IF selectedPiece.position = position THEN deselected
        ELSE IF clickedPiece # NoPiece THEN selected
        ELSE LET move == [from |-> selectedPiece.position, to |-> position,
                          piece |-> selectedPiece]
                 moveResult == makeMove(state.board, move)
             IN  IF moveResult.isValid
                 THEN [state EXCEPT !.board = moveResult.resultingBoard,
                                    !.selectedPiece = NoPiece,
                                    !.validMoves = <<>>,
                                    !.moveHistory = Append(@, move),
                                    !.isGameWon = moveResult.isGameWon,
                                    !.isGameOver = moveResult.isGameWon]
                 ELSE deselected

\* the SolutionPreview is not mounted
NoPreview ==
  [open |-> FALSE, length |-> 0, currentMoveIndex |-> -1, isAutoPlaying |-> FALSE,
   autoPlaySpeed |-> 1000]

\* no event handled yet
NoEvent == [kind |-> "none"]

(***************************************************************************)
(* Inputs                                                                  *)
(***************************************************************************)
\* new PriorityQueue(): the empty heap; priorities[k] is the priority item k
\* was enqueued with
NoQueueCalls == [heap |-> <<>>, priorities |-> <<>>, last |-> [op |-> "none"]]

\* no call of analyzeBoardState yet
NoAnalysis == [called |-> FALSE]

\* the board without its mover ("should handle board without pawn")
withoutMover(b) ==
  [row \in Rows |-> [col \in Cols |->
     IF b[row][col].piece # NoPiece /\ isOriginalPawn(b[row][col].piece)
     THEN [b[row][col] EXCEPT !.piece = NoPiece]
     ELSE b[row][col]]]

\* the board whose mover carries the id of another piece
withRenamedMover(b) ==
  [row \in Rows |-> [col \in Cols |->
     IF b[row][col].piece # NoPiece /\ isOriginalPawn(b[row][col].piece)
     THEN [b[row][col] EXCEPT !.piece.id = PieceId("rook", row, col)]
     ELSE b[row][col]]]

\* the board of "should handle malformed board data gracefully": no pieces
emptyBoard ==
  [row \in Rows |-> [col \in Cols |-> [type |-> NORMAL, piece |-> NoPiece]]]

\* the layout of the solver tests holding one piece
lonePiece(piece) ==
  [row \in Rows |-> [col \in Cols |->
     [type |-> IF row = 3 /\ col = 0 THEN GOAL
               ELSE IF row = 3 /\ (col = 1 \/ col = 2) THEN MISSING
               ELSE NORMAL,
      piece |-> IF piece.position = Pos(row, col) THEN piece ELSE NoPiece]]]

\* "should handle board with pawn already at goal"
winBoard ==
  lonePiece([type |-> PAWN, position |-> Pos(3, 0), id |-> PieceId("pawn", 3, 3)])

\* "should analyze promoted pawn correctly"
testBoard ==
  lonePiece([type |-> QUEEN, position |-> Pos(0, 2), id |-> PieceId("pawn", 3, 3)])

\* "should return true when pawn has clear path": only the pawn, on (3,3)
clearPathBoard ==
  lonePiece([type |-> PAWN, position |-> Pos(3, 3), id |-> PieceId("pawn", 3, 3)])

\* "should return false when path is blocked": a rook above the pawn
blockedPathBoard ==
  [clearPathBoard EXCEPT ![2][3].piece =
     [type |-> ROOK, position |-> Pos(2, 3), id |-> PieceId("rook", 2, 3)]]

\* "should handle promoted queen path checking": only the promoted mover,
\* placed on (3,2)
promotedQueenBoard ==
  lonePiece([type |-> QUEEN, position |-> Pos(3, 2), id |-> PieceId("pawn", 3, 3)])

\* the boards of the tests of canPawnReachGoal and the reference layout
PathLayouts ==
  {initializeBoard, clearPathBoard, blockedPathBoard, promotedQueenBoard, emptyBoard}

\* the boards handed to analyzeBoardState
BoardValues(b) ==
  {toValue(b), toValue(withoutMover(b)), toValue(withRenamedMover(b)), toValue(emptyBoard),
   toValue(winBoard), toValue(testBoard)}

\* values that are not an array of 4 rows of 4 squares: no array, arrays of 3
\* and 5 rows, Array(4).fill(null), a row that is no array or has 3 or 5
\* squares, a square that is null
MalformedValues(b) ==
  LET good == toValue(b)
      shortRow(row) == jsArray(SubSeq(good.items[row].items, 1, 3))
      longRow(row) == jsArray(Append(good.items[row].items, jsSquare(emptyBoard[0][0])))
      withRow(row, value) == jsArray([good.items EXCEPT ![row] = value])
      withSquare(row, col, value) ==
        jsArray([good.items EXCEPT ![row] = jsArray([good.items[row].items EXCEPT ![col] = value])])
  IN  {jsNull, jsUndefined, jsObject,
       jsArray(SubSeq(good.items, 1, 3)),
       jsArray(Append(good.items, good.items[1])),
       jsArray(<<jsNull, jsNull, jsNull, jsNull>>)}
      \cup UNION {{withRow(row, jsNull), withRow(row, jsObject),
                    withRow(row, shortRow(row)), withRow(row, longRow(row))} : row \in {1, 4}}
      \cup {withSquare(row, col, jsNull) : row \in 1 .. 4, col \in 1 .. 4}

\* a solution of the reference layout as the exhaustive search returns one:
\* 22 moves, each <<from, to>>; the piece of a move is the piece that the
\* board being expanded holds on from
solution ==
  << <<Pos(2, 0), Pos(3, 0)>>, <<Pos(0, 1), Pos(2, 0)>>, <<Pos(1, 2), Pos(0, 1)>>,
     <<Pos(2, 2), Pos(1, 2)>>, <<Pos(1, 3), Pos(2, 2)>>, <<Pos(2, 3), Pos(1, 3)>>,
     <<Pos(3, 3), Pos(2, 3)>>, <<Pos(2, 2), Pos(3, 3)>>, <<Pos(0, 3), Pos(2, 2)>>,
     <<Pos(1, 3), Pos(0, 3)>>, <<Pos(2, 3), Pos(1, 3)>>, <<Pos(0, 2), Pos(2, 3)>>,
     <<Pos(0, 3), Pos(0, 2)>>, <<Pos(1, 3), Pos(0, 3)>>, <<Pos(1, 2), Pos(1, 3)>>,
     <<Pos(0, 3), Pos(1, 2)>>, <<Pos(2, 2), Pos(0, 3)>>, <<Pos(2, 1), Pos(2, 2)>>,
     <<Pos(1, 2), Pos(2, 1)>>, <<Pos(2, 0), Pos(1, 2)>>, <<Pos(3, 0), Pos(2, 0)>>,
     <<Pos(2, 1), Pos(3, 0)>> >>

\* Piece snapshots that match no piece of the board: a pawn snapshot in
\* column 0, the mover's snapshots of the initial layout as pawn and as
\* queen, and a queen that is not the mover
StalePieces ==
  { [type |-> PAWN, position |-> Pos(3, 0), id |-> PieceId("pawn", 3, 3)],
    [type |-> PAWN, position |-> Pos(3, 3), id |-> PieceId("pawn", 3, 3)],
    [type |-> QUEEN, position |-> Pos(3, 3), id |-> PieceId("pawn", 3, 3)],
    [type |-> QUEEN, position |-> Pos(0, 0), id |-> PieceId("knight", 0, 0)] }

\* Move.to of a direct call: every square and two positions off the board
CallTargets == Positions \cup {Pos(-1, 3), Pos(4, 0)}

\* Move.from of a direct call: the snapshot's own square, the target square,
\* and a square that holds another piece
CallSources(piece, to) == ({piece.position, to} \cap Positions) \cup {Pos(1, 1)}

NoCall == [made |-> FALSE, direct |-> FALSE]

\* the record of a makeMove call: its arguments, what it returned and the
\* caller's board after it
CallRecord(b, move, direct) ==
  LET run == makeMoveRun(b, move)
  IN  [made |-> TRUE, direct |-> direct, board |-> b, move |-> move,
       result |-> run.result, boardAfter |-> run.inputBoard]

(***************************************************************************)
(* State machine                                                           *)
(***************************************************************************)
Init ==
  /\ board = initializeBoard
  /\ moveIndex = 0
  /\ freeMoves = 0
  /\ call = NoCall
  /\ visitedStates = emptyMap
  /\ runs = <<>>
  /\ stored = initializeBoard
  /\ active = 0
  /\ timers = <<>>
  /\ analysis = NoAnalysis
  /\ pq = NoQueueCalls
  /\ gameState = initializeGameState
  /\ event = NoEvent
  /\ preview = NoPreview

\* SolutionPreview.boardStates: the next move of the solution is applied to
\* currentBoard, which advances only if the move is accepted
ReplaySolutionMove ==
  /\ freeMoves = 0
  /\ moveIndex < Len(solution)
  /\ LET step == solution[moveIndex + 1]
         move == [from |-> step[1], to |-> step[2],
                  piece |-> board[step[1].row][step[1].col].piece]
         moveResult == makeMove(board, move)
     IN  /\ call' = CallRecord(board, move, FALSE)
         /\ board' = IF moveResult.isValid THEN moveResult.resultingBoard ELSE board
  /\ moveIndex' = moveIndex + 1
  /\ UNCHANGED <<sessionVars, freeMoves, visitedStates, runs, stored>>

\* one child of the board being expanded by solvePuzzle / solvePuzzleBFS, and
\* one accepted move of the interactive game: a move of generateMoves applied
\* by makeMove; goal boards are not expanded and a won game takes no move
PlayMove ==
  /\ freeMoves < MaxFreeMoves
  /\ ~isGoalState(board)
  /\ \E move \in Range(generateMoves(board)) :
       LET moveResult == makeMove(board, move)
       IN  /\ moveResult.isValid
           /\ call' = CallRecord(board, move, FALSE)
           /\ board' = moveResult.resultingBoard
  /\ freeMoves' = freeMoves + 1
  /\ UNCHANGED <<sessionVars, moveIndex, visitedStates, runs, stored>>

\* a direct call makeMove(board, move) of the exported function with any
\* Move value; the caller keeps its board.  makeMove is a function of its
\* arguments, so a direct call that follows a direct call on the same board
\* records nothing a first direct call does not
CallMakeMove ==
  /\ freeMoves = 0
  /\ ~call.direct
  /\ \E piece \in PiecesOn(board) \cup StalePieces :
       \E to \in CallTargets :
         \E from \in CallSources(piece, to) :
           call' = CallRecord(board, [from |-> from, to |-> to, piece |-> piece], TRUE)
  /\ UNCHANGED <<sessionVars, board, moveIndex, freeMoves, visitedStates, runs, stored>>

Next == ReplaySolutionMove \/ PlayMove \/ CallMakeMove

Spec == Init /\ [][Next]_vars

(***************************************************************************)
(* Runs of the solver.  initializeBoard() is the reference layout; the     *)
(* solver tests replace it by a layout of their own (vi.doMock), so a run  *)
(* starts from a layout drawn from StartBoards.  The calls are awaited:    *)
(* a call starts when the call before it has returned.                     *)
(***************************************************************************)
\* the number of calls made on one ChessPuzzleAISolver
MaxRuns == 2

\* how many moves deep the boards around a start board are enumerated
ReachDepth == 4

\* "should find solution for solvable puzzle": the pawn on (1,0)
simplePuzzle ==
  lonePiece([type |-> PAWN, position |-> Pos(1, 0), id |-> PieceId("pawn", 3, 3)])

\* the same layout with the pawn on (0,1), where it has no move
stuckPuzzle ==
  lonePiece([type |-> PAWN, position |-> Pos(0, 1), id |-> PieceId("pawn", 3, 3)])

\* the same layout with the pawn on (1,1): the promoted pawn needs two moves
\* from (0,1) to the goal
detourPuzzle ==
  lonePiece([type |-> PAWN, position |-> Pos(1, 1), id |-> PieceId("pawn", 3, 3)])

\* the positions of the replayed solution from which the solver is started:
\* the reference layout, the board right after the promotion (eight moves
\* before the goal) and the boards three and two moves before the goal
StartMoveIndexes == {0, 14, 19, 20}

\* the layouts initializeBoard() returns to the solver: the reference layout,
\* the layouts of the tests, and positions of the replayed solution
StartBoards ==
  IF moveIndex = 0 THEN {board, simplePuzzle, stuckPuzzle, detourPuzzle}
  ELSE IF moveIndex \in StartMoveIndexes THEN {board}
  ELSE {}

idle == IF Len(runs) = 0 THEN TRUE ELSE runs[Len(runs)].result.returned

\* initializeBoard() returns the same layout to every call
sameLayout(start) == IF Len(runs) = 0 THEN TRUE ELSE start = runs[1].initialBoard

InitSearch == Init

\* the solution is replayed up to the position handed to the solver
ReplayBeforeSearch ==
  /\ Len(runs) = 0
  /\ ReplaySolutionMove

StartSolvePuzzle ==
  /\ idle
  /\ Len(runs) < MaxRuns
  /\ \E start \in StartBoards :
       /\ sameLayout(start)
       /\ runs' = Append(runs, startSolvePuzzle(start))
  /\ visitedStates' = emptyMap
  /\ UNCHANGED <<sessionVars, board, moveIndex, freeMoves, call, stored>>

StartSolvePuzzleBFS ==
  /\ idle
  /\ Len(runs) < MaxRuns
  /\ \E start \in StartBoards :
       /\ sameLayout(start)
       /\ runs' = Append(runs, startSolvePuzzleBFS(start))
  /\ UNCHANGED <<sessionVars, board, moveIndex, freeMoves, call, stored, visitedStates>>

SolvePuzzleIteration ==
  /\ ~idle
  /\ runs[Len(runs)].strategy = ASTAR
  /\ solvePuzzleContinues(runs[Len(runs)])
  /\ LET after == solvePuzzleIteration(runs[Len(runs)], visitedStates)
     IN  /\ runs' = [runs EXCEPT ![Len(runs)] = after.run]
         /\ visitedStates' = after.visitedStates
  /\ UNCHANGED <<sessionVars, board, moveIndex, freeMoves, call, stored>>

\* the loop of solvePuzzle ends without a goal state: the failure result
SolvePuzzleExhausted ==
  /\ ~idle
  /\ runs[Len(runs)].strategy = ASTAR
  /\ ~solvePuzzleContinues(runs[Len(runs)])
  /\ runs' = [runs EXCEPT ![Len(runs)].result = failed(runs[Len(runs)].statesExplored)]
  /\ UNCHANGED <<sessionVars, board, moveIndex, freeMoves, call, stored, visitedStates>>

SolvePuzzleBFSIteration ==
  /\ ~idle
  /\ runs[Len(runs)].strategy = BFS
  /\ solvePuzzleBFSContinues(runs[Len(runs)])
  /\ runs' = [runs EXCEPT ![Len(runs)] = solvePuzzleBFSIteration(runs[Len(runs)])]
  /\ UNCHANGED <<sessionVars, board, moveIndex, freeMoves, call, stored, visitedStates>>

\* the loop of solvePuzzleBFS ends without a goal state: the failure result
SolvePuzzleBFSExhausted ==
  /\ ~idle
  /\ runs[Len(runs)].strategy = BFS
  /\ ~solvePuzzleBFSContinues(runs[Len(runs)])
  /\ runs' = [runs EXCEPT ![Len(runs)].result = failed(runs[Len(runs)].statesExplored)]
  /\ UNCHANGED <<sessionVars, board, moveIndex, freeMoves, call, stored, visitedStates>>

SolverStep ==
  \/ SolvePuzzleIteration
  \/ SolvePuzzleExhausted
  \/ SolvePuzzleBFSIteration
  \/ SolvePuzzleBFSExhausted

NextSearch == ReplayBeforeSearch \/ StartSolvePuzzle \/ StartSolvePuzzleBFS \/ SolverStep

SpecSearch == InitSearch /\ [][NextSearch]_vars

\* a call has started and has not returned
Running == IF Len(runs) = 0 THEN FALSE ELSE ~runs[Len(runs)].result.returned

\* a call that has started keeps running, the event loop resumes it after
\* every yield: weak fairness of SolverStep, with ENABLED <<SolverStep>>_vars
\* written out as Running (the two loop conditions and their negations
\* leave no running call without a step)
FairSpecSearch ==
  SpecSearch /\ ([]<>(~Running) \/ []<><<SolverStep>>_vars)


(***************************************************************************)
(* Fingerprints.  The search keeps the fingerprint of a board it visited   *)
(* and compares it with the fingerprints of the boards it creates later:   *)
(* stored is the board whose fingerprint is kept, board the board created  *)
(* by the moves that follow                                                *)
(***************************************************************************)
\* how many moves the boards compared with a stored board are away from it
MaxHashMoves == 7

\* the board after the next move of the solution is visited: its fingerprint
\* is stored
VisitSolutionMove ==
  /\ freeMoves = 0
  /\ moveIndex < Len(solution)
  /\ LET step == solution[moveIndex + 1]
         move == [from |-> step[1], to |-> step[2],
                  piece |-> board[step[1].row][step[1].col].piece]
         moveResult == makeMove(board, move)
         visitedBoard == IF moveResult.isValid THEN moveResult.resultingBoard ELSE board
     IN  /\ board' = visitedBoard
         /\ stored' = visitedBoard
  /\ moveIndex' = moveIndex + 1
  /\ UNCHANGED <<sessionVars, freeMoves, call, visitedStates, runs>>

\* a child of the board is created as the loop over possibleMoves creates it
ExploreMove ==
  /\ freeMoves < MaxHashMoves
  /\ ~isGoalState(board)
  /\ \E move \in Range(generateMoves(board)) :
       LET moveResult == makeMove(board, move)
       IN  /\ moveResult.isValid
           /\ board' = moveResult.resultingBoard
  /\ freeMoves' = freeMoves + 1
  /\ UNCHANGED <<sessionVars, moveIndex, call, stored, visitedStates, runs>>

NextHash == VisitSolutionMove \/ ExploreMove

SpecHash == Init /\ [][NextHash]_vars

(***************************************************************************)
(* Calls of one ChessPuzzleAISolver object interleaved by the event loop:  *)
(* solvePuzzle and solvePuzzleBFS are async functions, a call runs to its  *)
(* first await inside the caller's task and is resumed by the timer it set *)
(* (setTimeout 0, first set first fired).  A caller may start another call *)
(* on the same object whenever no task is running.  this.visitedStates is  *)
(* the one Map of the object; openSet, queue and visited are locals of a   *)
(* call.                                                                   *)
(***************************************************************************)
\* the loops yield when statesExplored is a multiple of this number (1000 in
\* the code)
yieldEvery == 3

\* solvePuzzle reaches its await at the end of the pass that starts in this
\* state: the state taken is neither the goal nor skipped by continue
solvePuzzleYields(run, visitedMap) ==
  LET currentState == run.nodes[dequeue(run.openSet).item]
      currentHash == hashBoard(currentState.board)
  IN  /\ ~isGoalState(currentState.board)
      /\ ~(currentHash \in DOMAIN visitedMap /\ currentState.gCost >= visitedMap[currentHash])
      /\ (run.statesExplored + 1) % yieldEvery = 0

\* the same for solvePuzzleBFS
solvePuzzleBFSYields(run) ==
  LET currentState == run.nodes[shift(run.queue).item]
  IN  /\ hashBoard(currentState.board) \notin run.visited
      /\ ~isGoalState(currentState.board)
      /\ (run.statesExplored + 1) % yieldEvery = 0

\* a caller calls solver.solvePuzzle(): the call clears this.visitedStates
\* and enters its loop
CallSolvePuzzle ==
  /\ active = 0
  /\ Len(runs) < MaxRuns
  /\ \E start \in StartBoards :
       /\ sameLayout(start)
       /\ runs' = Append(runs, startSolvePuzzle(start))
  /\ visitedStates' = emptyMap
  /\ active' = Len(runs) + 1
  /\ UNCHANGED <<board, moveIndex, freeMoves, call, stored, timers, analysis, pq, gameState, event, preview>>

\* a caller calls solver.solvePuzzleBFS()
CallSolvePuzzleBFS ==
  /\ active = 0
  /\ Len(runs) < MaxRuns
  /\ \E start \in StartBoards :
       /\ sameLayout(start)
       /\ runs' = Append(runs, startSolvePuzzleBFS(start))
  /\ active' = Len(runs) + 1
  /\ UNCHANGED <<board, moveIndex, freeMoves, call, stored, visitedStates, timers, analysis, pq, gameState, event, preview>>

\* one pass of the loop of the running solvePuzzle call; the call leaves the
\* task when it returns and when it awaits its timer
RunSolvePuzzleIteration ==
  /\ active # 0
  /\ runs[active].strategy = ASTAR
  /\ solvePuzzleContinues(runs[active])
  /\ LET after == solvePuzzleIteration(runs[active], visitedStates)
         yields == solvePuzzleYields(runs[active], visitedStates)
     IN  /\ runs' = [runs EXCEPT ![active] = after.run]
         /\ visitedStates' = after.visitedStates
         /\ timers' = IF yields THEN Append(timers, active) ELSE timers
         /\ active' = IF yields \/ after.run.result.returned THEN 0 ELSE active
  /\ UNCHANGED <<board, moveIndex, freeMoves, call, stored, analysis, pq, gameState, event, preview>>

RunSolvePuzzleExhausted ==
  /\ active # 0
  /\ runs[active].strategy = ASTAR
  /\ ~solvePuzzleContinues(runs[active])
  /\ runs' = [runs EXCEPT ![active].result = failed(runs[active].statesExplored)]
  /\ active' = 0
  /\ UNCHANGED <<board, moveIndex, freeMoves, call, stored, visitedStates, timers, analysis, pq, gameState, event, preview>>

RunSolvePuzzleBFSIteration ==
  /\ active # 0
  /\ runs[active].strategy = BFS
  /\ solvePuzzleBFSContinues(runs[active])
  /\ LET after == solvePuzzleBFSIteration(runs[active])
         yields == solvePuzzleBFSYields(runs[active])
     IN  /\ runs' = [runs EXCEPT ![active] = after]
         /\ timers' = IF yields THEN Append(timers, active) ELSE timers
         /\ active' = IF yields \/ after.result.returned THEN 0 ELSE active
  /\ UNCHANGED <<board, moveIndex, freeMoves, call, stored, visitedStates, analysis, pq, gameState, event, preview>>

RunSolvePuzzleBFSExhausted ==
  /\ active # 0
  /\ runs[active].strategy = BFS
  /\ ~solvePuzzleBFSContinues(runs[active])
  /\ runs' = [runs EXCEPT ![active].result = failed(runs[active].statesExplored)]
  /\ active' = 0
  /\ UNCHANGED <<board, moveIndex, freeMoves, call, stored, visitedStates, timers, analysis, pq, gameState, event, preview>>

\* the timer set first fires: its call goes on after its await
ResumeCall ==
  /\ active = 0
  /\ timers # <<>>
  /\ active' = Head(timers)
  /\ timers' = Tail(timers)
  /\ UNCHANGED <<board, moveIndex, freeMoves, call, stored, visitedStates, runs, analysis, pq, gameState, event, preview>>

NextAsync ==
  \/ ReplayBeforeSearch
  \/ CallSolvePuzzle
  \/ CallSolvePuzzleBFS
  \/ RunSolvePuzzleIteration
  \/ RunSolvePuzzleExhausted
  \/ RunSolvePuzzleBFSIteration
  \/ RunSolvePuzzleBFSExhausted
  \/ ResumeCall

SpecAsync == Init /\ [][NextAsync]_vars

(***************************************************************************)
(* Calls of analyzeBoardState: a board is set up by moves of the game, as  *)
(* the tests set up theirs, and handed to the method as it is, without its *)
(* mover, or damaged.                                                      *)
(***************************************************************************)
\* number of moves off the replayed solution before the analysis
MaxAnalysisMoves == 1

SetUpSolutionMove ==
  /\ ~analysis.called
  /\ ReplaySolutionMove

SetUpMove ==
  /\ ~analysis.called
  /\ freeMoves < MaxAnalysisMoves
  /\ PlayMove

AnalyzeBoardState ==
  /\ ~analysis.called
  /\ \E value \in BoardValues(board) \cup MalformedValues(board) :
       analysis' = [called |-> TRUE, input |-> value, outcome |-> analyzeBoardState(value)]
  /\ UNCHANGED <<board, moveIndex, freeMoves, call, visitedStates, runs, stored,
                 active, timers, pq, gameState, event, preview>>

NextAnalysis == SetUpSolutionMove \/ SetUpMove \/ AnalyzeBoardState

SpecAnalysis == Init /\ [][NextAnalysis]_vars

(***************************************************************************)
(* The frontier: a PriorityQueue under any client, enqueue and dequeue in  *)
(* any order, and under the runs of solvePuzzle.  The items of the client  *)
(* are numbered in the order they are enqueued.                            *)
(***************************************************************************)
\* number of enqueue calls of the client
MaxEnqueues == 5

\* the priorities of the client are 0 .. MaxPriority
MaxPriority == 2

Enqueue ==
  /\ Len(runs) = 0
  /\ moveIndex = 0
  /\ Len(pq.priorities) < MaxEnqueues
  /\ \E priority \in 0 .. MaxPriority :
       pq' = [heap |-> enqueue(pq.heap, Len(pq.priorities) + 1, priority),
              priorities |-> Append(pq.priorities, priority),
              last |-> [op |-> "enqueue"]]
  /\ UNCHANGED <<board, moveIndex, freeMoves, call, visitedStates, runs, stored,
                 active, timers, analysis, gameState, event, preview>>

Dequeue ==
  /\ Len(runs) = 0
  /\ moveIndex = 0
  /\ LET taken == dequeue(pq.heap)
     IN  pq' = [pq EXCEPT !.heap = taken.heap,
                          !.last = [op |-> "dequeue", item |-> taken.item,
                                    wasEmpty |-> isEmpty(pq.heap)]]
  /\ UNCHANGED <<board, moveIndex, freeMoves, call, visitedStates, runs, stored,
                 active, timers, analysis, gameState, event, preview>>

\* the frontier of the runs
SearchOnFrontier ==
  /\ pq = NoQueueCalls
  /\ NextSearch

NextFrontier == Enqueue \/ Dequeue \/ SearchOnFrontier

SpecFrontier == Init /\ [][NextFrontier]_vars

(***************************************************************************)
(* The interactive game: clicks on the squares of the board and on the     *)
(* reset button.  The moves played follow the replayed solution up to the  *)
(* win, with a bounded number of other moves.                              *)
(***************************************************************************)
\* number of moves of a game that are not the next move of the solution
MaxGameDetours == 1

\* the moves of the history that leave the solution
detours(moveHistory) ==
  Cardinality({k \in 1 .. Len(moveHistory) :
                 \/ k > Len(solution)
                 \/ moveHistory[k].from # solution[k][1]
                 \/ moveHistory[k].to # solution[k][2]})

SquareClick ==
  /\ \E position \in Positions :
       /\ gameState' = handleSquareClick(gameState, position)
       /\ event' = [kind |-> "click", position |-> position]
  /\ detours(gameState'.moveHistory) <= MaxGameDetours
  /\ UNCHANGED <<board, moveIndex, freeMoves, call, visitedStates, runs, stored, solverVars, preview>>

\* handleResetGame
ResetGame ==
  /\ gameState' = initializeGameState
  /\ event' = [kind |-> "reset"]
  /\ UNCHANGED <<board, moveIndex, freeMoves, call, visitedStates, runs, stored, solverVars, preview>>

NextGame == SquareClick \/ ResetGame

SpecGame == Init /\ [][NextGame]_vars

(***************************************************************************)
(* The solution preview: the component is mounted with a solution, the     *)
(* user navigates, toggles auto-play, changes the speed and closes the     *)
(* preview; while isAutoPlaying is true the interval of the auto-play      *)
(* effect ticks.  Navigation is disabled while auto-play is on, the        *)
(* auto-play button is disabled on the last move, the space key is not.    *)
(***************************************************************************)
\* the lengths of the solutions shown: the empty solution, the solutions of
\* the test layouts and the solution of the reference layout
PreviewLengths == {0, 1, 3, Len(solution)}

OpenPreview ==
  /\ ~preview.open
  /\ \E length \in PreviewLengths :
       preview' = [NoPreview EXCEPT !.open = TRUE, !.length = length]
  /\ event' = [kind |-> "open"]
  /\ UNCHANGED <<board, moveIndex, freeMoves, call, visitedStates, runs, stored,
                 solverVars, gameState>>

\* the callback without the switch to off on the last move
AutoPlayTickNeverStops ==
  /\ preview.open
  /\ preview.isAutoPlaying
  /\ preview' = IF preview.currentMoveIndex >= preview.length - 1
                THEN preview
                ELSE [preview EXCEPT !.currentMoveIndex = @ + 1]
  /\ event' = [kind |-> "tick"]
  /\ UNCHANGED <<board, moveIndex, freeMoves, call, visitedStates, runs, stored,
                 solverVars, gameState>>

\* the callback of setInterval in the auto-play effect
AutoPlayTick ==
  /\ preview.open
  /\ preview.isAutoPlaying
  /\ preview' = IF preview.currentMoveIndex >= preview.length - 1
                THEN [preview EXCEPT !.isAutoPlaying = FALSE]
                ELSE [preview EXCEPT !.currentMoveIndex = @ + 1]
  /\ event' = [kind |-> "tick"]
  /\ UNCHANGED <<board, moveIndex, freeMoves, call, visitedStates, runs, stored,
                 solverVars, gameState>>

\* handlePrevious, handleNext, handleJumpToMove, handleReset, handlePlayAll:
\* buttons and keys are off while auto-play is on
Navigate ==
  /\ preview.open
  /\ ~preview.isAutoPlaying
  /\ LET prev == preview.currentMoveIndex
         handlePrevious == IF -1 > prev - 1 THEN -1 ELSE prev - 1
         handleNext == IF preview.length - 1 < prev + 1 THEN preview.length - 1 ELSE prev + 1
         handleJumpToMove == -1 .. preview.length - 1
         handleReset == -1
         handlePlayAll == preview.length - 1
     IN  \E index \in {handlePrevious, handleNext, handleReset, handlePlayAll}
                        \cup handleJumpToMove :
           preview' = [preview EXCEPT !.currentMoveIndex = index]
  /\ event' = [kind |-> "navigate"]
  /\ UNCHANGED <<board, moveIndex, freeMoves, call, visitedStates, runs, stored,
                 solverVars, gameState>>

\* toggleAutoPlay, by the button or the space key
ToggleAutoPlay ==
  /\ preview.open
  /\ preview' = [preview EXCEPT !.isAutoPlaying = ~@]
  /\ event' = [kind |-> "toggle"]
  /\ UNCHANGED <<board, moveIndex, freeMoves, call, visitedStates, runs, stored,
                 solverVars, gameState>>

\* handleSpeedChange with a speed of the select
SpeedChange ==
  /\ preview.open
  /\ \E speed \in {2000, 1000, 500, 200} :
       preview' = [preview EXCEPT !.autoPlaySpeed = speed]
  /\ event' = [kind |-> "speed"]
  /\ UNCHANGED <<board, moveIndex, freeMoves, call, visitedStates, runs, stored,
                 solverVars, gameState>>

\* onClose: the component is unmounted, the effect clears its interval
ClosePreview ==
  /\ preview.open
  /\ preview' = NoPreview
  /\ event' = [kind |-> "close"]
  /\ UNCHANGED <<board, moveIndex, freeMoves, call, visitedStates, runs, stored,
                 solverVars, gameState>>

NextPreview ==
  OpenPreview \/ AutoPlayTick \/ Navigate \/ ToggleAutoPlay \/ SpeedChange \/ ClosePreview

SpecPreview == Init /\ [][NextPreview]_vars

\* the interval fires as long as auto-play is on
FairSpecPreview == SpecPreview /\ WF_vars(AutoPlayTick)

(***************************************************************************)
(* analyzeBoardState called on the solver object that runs the searches:   *)
(* a first call before the runs, further calls while a run is in progress  *)
(* and after it has returned.                                              *)
(***************************************************************************)
\* number of calls of analyzeBoardState in a behaviour
MaxAnalyses == 2

\* the board analysed is a layout the runs start from
AnalyzeBeforeSearch ==
  /\ ~analysis.called
  /\ Len(runs) = 0
  /\ moveIndex \in StartMoveIndexes
  /\ analysis' = [called |-> TRUE, calls |-> 1, input |-> toValue(board),
                  outcome |-> analyzeBoardState(toValue(board))]
  /\ UNCHANGED <<board, moveIndex, freeMoves, call, visitedStates, runs, stored,
                 active, timers, pq, gameState, event, preview>>

AnalyzeAgain ==
  /\ analysis.called
  /\ analysis.calls < MaxAnalyses
  /\ analysis' = [called |-> TRUE, calls |-> analysis.calls + 1, input |-> toValue(board),
                  outcome |-> analyzeBoardState(toValue(board))]
  /\ UNCHANGED <<board, moveIndex, freeMoves, call, visitedStates, runs, stored,
                 active, timers, pq, gameState, event, preview>>

NextSearchAnalysis == NextSearch \/ AnalyzeBeforeSearch \/ AnalyzeAgain

SpecSearchAnalysis == Init /\ [][NextSearchAnalysis]_vars


(***************************************************************************)
(* AISolver.handleSolve on the reference layout.  The game is played on    *)
(* the board on screen, along the move line and off it; then one call      *)
(* solvePuzzle() is made, whose initializeBoard() returns the reference    *)
(* layout whatever the board on screen.  The call is awaited and nothing   *)
(* else uses the solver meanwhile, so the action is the call from its      *)
(* start to its return.                                                    *)
(***************************************************************************)
\* the number of passes of the loop the call is followed for
MaxReferencePasses == 1400

\* the condition of the while loop of solvePuzzle, the cap being the bound
\* of the reference call
referenceCallContinues(run) ==
  ~isEmpty(run.openSet) /\ run.statesExplored < MaxReferencePasses

\* the loop of solvePuzzle from one pass to the next: the locals of the call
\* and this.visitedStates after the pass, the failure result once the loop
\* has ended, and nothing more after the return
referenceCallPass(call_) ==
  IF call_.run.result.returned THEN call_
  ELSE IF referenceCallContinues(call_.run)
  THEN solvePuzzleIteration(call_.run, call_.visitedStates)
  ELSE [call_ EXCEPT !.run.result = failed(call_.run.statesExplored)]

\* n passes one after another, composed by halves; no pass follows the return
RECURSIVE referenceCallPasses(_, _)
referenceCallPasses(call_, n) ==
  IF n = 0 THEN call_
  ELSE IF n = 1 THEN referenceCallPass(call_)
  ELSE LET half == referenceCallPasses(call_, n \div 2)
       IN  IF half.run.result.returned THEN half
           ELSE referenceCallPasses(half, n - n \div 2)

\* the game on screen before the call: a move of the line or a move off it
PlayBeforeCall ==
  /\ Len(runs) = 0
  /\ (ReplaySolutionMove \/ PlayMove)

CallSolvePuzzleOnReference ==
  /\ Len(runs) = 0
  /\ moveIndex = Len(solution)
  /\ LET after == referenceCallPasses([run |-> startSolvePuzzle(initializeBoard),
                                       visitedStates |-> emptyMap],
                                      MaxReferencePasses + 1)
     IN  /\ runs' = <<after.run>>
         /\ visitedStates' = after.visitedStates
  /\ UNCHANGED <<sessionVars, board, moveIndex, freeMoves, call, stored>>

NextReference == PlayBeforeCall \/ CallSolvePuzzleOnReference

SpecReference == Init /\ [][NextReference]_vars


(***************************************************************************)
(* Calls of canPawnReachGoal: the game starts from the reference layout or *)
(* from a board of the function's tests, moves are played, and the         *)
(* function is called on the board as it is or without its mover; the      *)
(* call is recorded in analysis.                                           *)
(***************************************************************************)
InitPath ==
  /\ board \in PathLayouts
  /\ moveIndex = 0
  /\ freeMoves = 0
  /\ call = NoCall
  /\ visitedStates = emptyMap
  /\ runs = <<>>
  /\ stored = board
  /\ active = 0
  /\ timers = <<>>
  /\ analysis = NoAnalysis
  /\ pq = NoQueueCalls
  /\ gameState = initializeGameState
  /\ event = NoEvent
  /\ preview = NoPreview

\* the move line belongs to the reference layout
SetUpPathLineMove ==
  /\ ~analysis.called
  /\ stored = initializeBoard
  /\ ReplaySolutionMove

SetUpPathMove ==
  /\ ~analysis.called
  /\ PlayMove

CallCanPawnReachGoal ==
  /\ ~analysis.called
  /\ \E b \in {board, withoutMover(board)} :
       analysis' = [called |-> TRUE, input |-> b, outcome |-> canPawnReachGoal(b)]
  /\ UNCHANGED <<board, moveIndex, freeMoves, call, visitedStates, runs, stored,
                 active, timers, pq, gameState, event, preview>>

NextPath == SetUpPathLineMove \/ SetUpPathMove \/ CallCanPawnReachGoal

SpecPath == InitPath /\ [][NextPath]_vars

(***************************************************************************)
(* Properties of move generation                                           *)
(***************************************************************************)
\* in bounds, not MISSING and holding no piece
IsFree(pos, b) ==
  /\ pos.row \in Rows
  /\ pos.col \in Cols
  /\ b[pos.row][pos.col].type # MISSING
  /\ b[pos.row][pos.col].piece = NoPiece

Diagonals == {Pos(1, 1), Pos(1, -1), Pos(-1, 1), Pos(-1, -1)}
Orthogonals == {Pos(1, 0), Pos(-1, 0), Pos(0, 1), Pos(0, -1)}
LOffsets == {Pos(2, 1), Pos(2, -1), Pos(-2, 1), Pos(-2, -1),
             Pos(1, 2), Pos(1, -2), Pos(-1, 2), Pos(-1, -2)}

Shift(pos, dir, n) == Pos(pos.row + n * dir.row, pos.col + n * dir.col)

\* the squares q on a ray of dirs from pos such that q and every square
\* strictly between pos and q are free
RaySquares(pos, dirs, b) ==
  UNION { {Shift(pos, dir, n) :
             n \in {k \in 1 .. BOARD_SIZE :
                      \A m \in 1 .. k : IsFree(Shift(pos, dir, m), b)}} :
          dir \in dirs }

LSquares(pos, b) ==
  {q \in Positions : \E off \in LOffsets : q = Shift(pos, off, 1) /\ IsFree(q, b)}

\* C1: on every reachable board, every position getValidMoves returns for a
\* piece of the board is inside the 4x4 grid, is not a MISSING square, holds
\* no piece and is not the piece's own square.
C1_DestinationsAreFreeSquares ==
  \A p \in PiecesOn(board) :
    \A pos \in Range(getValidMoves(p, board)) :
      /\ pos.row \in 0 .. 3
      /\ pos.col \in 0 .. 3
      /\ board[pos.row][pos.col].type # MISSING
      /\ board[pos.row][pos.col].piece = NoPiece
      /\ pos # p.position

\* a reachable board on which the promoted mover and a rook both have
\* destinations, the rook standing right above a MISSING square
C1_Witness ==
  /\ \E p \in PiecesOn(board) :
       p.type = QUEEN /\ Len(getValidMoves(p, board)) > 0
  /\ \E p \in PiecesOn(board) :
       /\ p.type = ROOK
       /\ p.position.row = 2
       /\ p.position.col \in {1, 2}
       /\ Len(getValidMoves(p, board)) > 0

\* C2: getValidMoves returns exactly the template set: for a bishop, rook or
\* queen the squares of its rays (diagonal, orthogonal, both) reached over
\* free squares only, for a knight the free squares at the eight L-offsets;
\* the queen's moves are the rook's and the bishop's from the same square.
C2_TemplateMoves ==
  \A p \in PiecesOn(board) :
    LET moves == Range(getValidMoves(p, board))
    IN  /\ p.type = BISHOP => moves = RaySquares(p.position, Diagonals, board)
        /\ p.type = ROOK => moves = RaySquares(p.position, Orthogonals, board)
        /\ p.type = QUEEN =>
             /\ moves = RaySquares(p.position, Diagonals \cup Orthogonals, board)
             /\ moves = Range(getRookMoves(p.position, board))
                          \cup Range(getBishopMoves(p.position, board))
        /\ p.type = KNIGHT => moves = LSquares(p.position, board)

\* a reachable board on which the queen has a destination, a knight has a
\* destination, and a bishop has the one free square of the board behind a
\* piece on one of its diagonals (the ray stops at the piece)
C2_Witness ==
  /\ \E p \in PiecesOn(board) :
       p.type = QUEEN /\ Len(getValidMoves(p, board)) > 0
  /\ \E p \in PiecesOn(board) :
       p.type = KNIGHT /\ Len(getValidMoves(p, board)) > 0
  /\ \E p \in PiecesOn(board) :
       /\ p.type = BISHOP
       /\ \E dir \in Diagonals :
            /\ Shift(p.position, dir, 1) \in Positions
            /\ ~IsFree(Shift(p.position, dir, 1), board)
            /\ IsFree(Shift(p.position, dir, 2), board)

\* the pieces C3 speaks of: the pieces of the board and the snapshot of the
\* last call
PawnsSeen ==
  {p \in PiecesOn(board) \cup (IF call.made THEN {call.move.piece} ELSE {}) :
     p.type = PAWN}

Accepted == call.made /\ call.result.isValid

\* C4: makeMove rejects unless the piece standing on move.from of the board
\* is move.piece and move.to is a legal destination of that piece; a move
\* whose snapshot does not match what stands on move.from is rejected.
C4_RejectsUnlessPieceOnFrom ==
  Accepted =>
    LET onFrom == call.board[call.move.from.row][call.move.from.col].piece
    IN  /\ onFrom = call.move.piece
        /\ call.move.to \in Range(getValidMoves(onFrom, call.board))

\* C5: makeMove never modifies its input board, whether it accepts or
\* rejects, and a rejected call returns isValid = false and nothing else.
C5_InputBoardUnchanged ==
  call.made =>
    /\ call.boardAfter = call.board
    /\ ~call.result.isValid => DOMAIN call.result = {"isValid"}

\* an accepted call whose resulting board differs from its input board
C5_Witness ==
  /\ Accepted
  /\ call.result.resultingBoard # call.board
  /\ call.result.resultingBoard[call.move.to.row][call.move.to.col].piece # NoPiece

\* C6: for an accepted move the resulting board differs from the input board
\* only at move.from, now empty, and at move.to, now holding the moved piece
\* with the same id and stored position move.to; every other square's piece
\* and every square's type are unchanged.
C6_OnlyFromAndToChange ==
  Accepted =>
    LET from == call.move.from
        to == call.move.to
        before == call.board
        after == call.result.resultingBoard
    IN  /\ after[from.row][from.col].piece = NoPiece
        /\ after[to.row][to.col].piece # NoPiece
        /\ after[to.row][to.col].piece.id = call.move.piece.id
        /\ after[to.row][to.col].piece.position = to
        /\ \A row \in Rows : \A col \in Cols :
             /\ after[row][col].type = before[row][col].type
             /\ Pos(row, col) \notin {from, to} =>
                  after[row][col].piece = before[row][col].piece

C9_WonIffMoverOnGoal ==
  Accepted /\ ~isGoalState(call.board) =>
    LET after == call.result.resultingBoard
    IN  /\ call.result.isGameWon <=> isGoalState(after)
        /\ call.result.isGameWon <=>
             /\ after[3][0].piece # NoPiece
             /\ after[3][0].piece.id = PieceId("pawn", 3, 3)
        /\ call.move.piece.id # PieceId("pawn", 3, 3) => ~call.result.isGameWon

\* the winning move of the game: the promoted mover steps onto the goal
C9_Witness ==
  /\ Accepted
  /\ ~call.direct
  /\ ~isGoalState(call.board)
  /\ call.result.isGameWon
  /\ call.move.to = Pos(3, 0)
  /\ board[3][0].piece.type = QUEEN

\* C10: on every board reached from the initial layout by moves taken from
\* getValidMoves of a piece of the current board, no two squares hold a piece
\* with the same id and every piece's stored position is its square.
C10_UniqueIdsAndPositions ==
  \A row \in Rows : \A col \in Cols :
    board[row][col].piece # NoPiece =>
      /\ board[row][col].piece.position = Pos(row, col)
      /\ \A row2 \in Rows : \A col2 \in Cols :
           /\ board[row2][col2].piece # NoPiece
           /\ board[row2][col2].piece.id = board[row][col].piece.id
           => row2 = row /\ col2 = col

\* a board reached by accepted moves on which the mover has left its square
\* and the piece moved last stands on the square it moved to
C10_Witness ==
  /\ Accepted
  /\ ~call.direct
  /\ board = call.result.resultingBoard
  /\ board[call.move.to.row][call.move.to.col].piece # NoPiece
  /\ board[3][3].piece = NoPiece

(***************************************************************************)
(* Invariants of the reachable boards                                      *)
(***************************************************************************)
\* C11: on every board reached from the initial layout by accepted moves the
\* MISSING squares (3,1) and (3,2) hold no piece (and stay MISSING); this
\* covers the board returned by any accepted call.
C11_MissingSquaresStayEmpty ==
  /\ \A col \in {1, 2} :
       board[3][col].type = MISSING /\ board[3][col].piece = NoPiece
  /\ Accepted =>
       \A col \in {1, 2} :
         /\ call.result.resultingBoard[3][col].type = MISSING
         /\ call.result.resultingBoard[3][col].piece = NoPiece

\* the piece moved last is a rook that went to (2,2), right above the
\* MISSING square (3,2), and stands there
C11_Witness ==
  /\ Accepted
  /\ ~call.direct
  /\ call.move.piece.type = ROOK
  /\ call.move.to = Pos(2, 2)
  /\ board[2][2].piece # NoPiece
  /\ board[2][2].piece.type = ROOK
  /\ board[3][2].type = MISSING

\* C12: every reachable board holds exactly one piece with the mover
\* identity pawn-3-3, the ids on the board are the ids that initializeBoard
\* assigned, each id still with the piece type it was given (the mover as
\* pawn or queen), and no helper satisfies isOriginalPawn.
C12_IdsAreStable ==
  /\ Cardinality({p \in PiecesOn(board) : isOriginalPawn(p)}) = 1
  /\ \A p \in PiecesOn(board) :
       /\ isOriginalPawn(p) <=> p.id = PieceId("pawn", 3, 3)
       /\ p.id = PieceId("pawn", 3, 3) => p.type \in {PAWN, QUEEN}
       /\ p.id # PieceId("pawn", 3, 3) => p.type = p.id[1] /\ p.type \in {KNIGHT, BISHOP, ROOK}
  /\ {p.id : p \in PiecesOn(board)} = {p.id : p \in PiecesOn(initializeBoard)}
  /\ Accepted /\ ~call.direct =>
       call.result.resultingBoard[call.move.to.row][call.move.to.col].piece.id
         = call.board[call.move.from.row][call.move.from.col].piece.id

\* the mover has been promoted and has moved on as a queen, still pawn-3-3
C12_Witness ==
  /\ Accepted
  /\ ~call.direct
  /\ call.move.piece.type = QUEEN
  /\ \E p \in PiecesOn(board) :
       p.type = QUEEN /\ p.id = PieceId("pawn", 3, 3) /\ p.position = call.move.to

(***************************************************************************)
(* Properties of the solver                                                *)
(***************************************************************************)
Returned(i) == i \in 1 .. Len(runs) /\ runs[i].result.returned

Solved(i) == Returned(i) /\ ~runs[i].result.solution.null

Failed(i) == Returned(i) /\ runs[i].result.solution.null

RunIds == 1 .. MaxRuns

\* the replay loop of "should validate that found solutions are actually
\* valid" and of SolutionPreview.boardStates: every move of the solution is
\* given to makeMove on the board the moves before it produced
RECURSIVE replay(_, _)
replay(b, moves) ==
  IF Len(moves) = 0 THEN [accepted |-> TRUE, board |-> b]
  ELSE LET moveResult == makeMove(b, Head(moves))
       IN  IF moveResult.isValid
           THEN replay(moveResult.resultingBoard, Tail(moves))
           ELSE [accepted |-> FALSE, board |-> b]

\* C13: for every run of either strategy that returned a solution, makeMove
\* accepts every move of the solution when they are applied in order from
\* the start board, the final board is the board of the goal search state,
\* and the mover stands on the goal square of it.
C13_SolutionReplays ==
  \A i \in RunIds :
    Solved(i) =>
      LET replayed == replay(runs[i].initialBoard, runs[i].result.solution.moves)
          goalSquare == replayed.board[3][0]
      IN  /\ replayed.accepted
          /\ replayed.board = runs[i].nodes[runs[i].currentState].board
          /\ goalSquare.type = GOAL
          /\ goalSquare.piece # NoPiece
          /\ isOriginalPawn(goalSquare.piece)

\* both strategies returned a solution of three moves from the same board
C13_Witness ==
  /\ Len(runs) = 2
  /\ Solved(1) /\ Solved(2)
  /\ runs[1].strategy = ASTAR /\ runs[2].strategy = BFS
  /\ Len(runs[1].result.solution.moves) = 3
  /\ Len(runs[2].result.solution.moves) = 3

\* the boards one move away
successors(b) ==
  {makeMove(b, move).resultingBoard : move \in Range(generateMoves(b))}

\* the boards at most k moves away from start
RECURSIVE within(_, _)
within(start, k) ==
  IF k = 0 THEN {start}
  ELSE LET nearer == within(start, k - 1)
       IN  nearer \cup UNION {successors(b) : b \in nearer}

Min(a, b) == IF a < b THEN a ELSE b

\* C14: a solution returned by solvePuzzleBFS is a shortest one: no board
\* with the mover on the goal square is fewer moves away from the start
\* board than the solution is long (compared with the boards enumerated up
\* to ReachDepth moves around the start board).
C14_BFSSolutionIsShortest ==
  \A i \in RunIds :
    Solved(i) /\ runs[i].strategy = BFS =>
      \A b \in within(runs[i].initialBoard,
                      Min(runs[i].result.solutionLength - 1, ReachDepth)) :
        ~isGoalState(b)

\* solvePuzzleBFS returned a solution of three moves after discarding a
\* state it dequeued for the second time
C14_Witness ==
  \E i \in RunIds :
    /\ Solved(i)
    /\ runs[i].strategy = BFS
    /\ runs[i].result.solutionLength = 3
    /\ runs[i].result.statesExplored > Cardinality(runs[i].visited)

\* C15: when both strategies returned a solution from the same start board,
\* the solution of solvePuzzleBFS is not longer than the solution of
\* solvePuzzle.
C15_BFSNotLongerThanAStar ==
  \A i, j \in RunIds :
    /\ Solved(i) /\ runs[i].strategy = BFS
    /\ Solved(j) /\ runs[j].strategy = ASTAR
    /\ runs[i].initialBoard = runs[j].initialBoard
    => Len(runs[i].result.solution.moves) <= Len(runs[j].result.solution.moves)

\* solvePuzzleBFS returned a solution and then solvePuzzle returned one from
\* the same board with thirteen pieces
C15_Witness ==
  /\ Len(runs) = 2
  /\ runs[1].strategy = BFS /\ runs[2].strategy = ASTAR
  /\ Solved(1) /\ Solved(2)
  /\ runs[1].initialBoard = runs[2].initialBoard
  /\ Len(getAllPlayerPieces(runs[1].initialBoard)) = 13

\* every board at most ReachDepth moves away has all its successors among
\* these boards: they are all the boards that can be reached
closedWithin(start) ==
  \A b \in within(start, ReachDepth) : successors(b) \subseteq within(start, ReachDepth)

\* C17: solvePuzzle returns solution = null only if the cap was reached or
\* no board with the mover on the goal can be reached from the start board;
\* a solution it returns from a start board that is not won has at least
\* one move.
C17_AStarFailsOnlyWithoutGoalOrAtCap ==
  \A i \in RunIds :
    /\ Failed(i) /\ runs[i].strategy = ASTAR =>
         \/ runs[i].result.statesExplored >= maxStatesExplored
         \/ /\ closedWithin(runs[i].initialBoard)
            /\ \A b \in within(runs[i].initialBoard, ReachDepth) : ~isGoalState(b)
    /\ Solved(i) /\ runs[i].strategy = ASTAR /\ ~isGoalState(runs[i].initialBoard) =>
         Len(runs[i].result.solution.moves) >= 1

\* solvePuzzle returned a solution of eight moves and had skipped a state it
\* dequeued whose fingerprint was visited at a cost not higher
C17_Witness ==
  \E i \in RunIds :
    /\ i = Len(runs)
    /\ Solved(i)
    /\ runs[i].strategy = ASTAR
    /\ Len(runs[i].result.solution.moves) = 8
    /\ runs[i].result.statesExplored - 1 > Cardinality(DOMAIN visitedStates)

\* the states a run has taken from its frontier: all it created but those
\* still waiting
dequeuedStates(run) ==
  Len(run.nodes) - (IF run.strategy = ASTAR THEN Len(run.openSet) ELSE Len(run.queue))

RunsWithinCap ==
  \A i \in RunIds :
    i <= Len(runs) =>
      /\ runs[i].statesExplored = dequeuedStates(runs[i])
      /\ runs[i].statesExplored <= maxStatesExplored
      /\ Returned(i) =>
           /\ runs[i].result.statesExplored = runs[i].statesExplored
           /\ Solved(i) \/ Failed(i)

HasReturned == IF Len(runs) = 0 THEN FALSE ELSE runs[Len(runs)].result.returned

\* C18: every run of solvePuzzle and of solvePuzzleBFS returns, with a
\* solution or with the failure result; statesExplored is the number of
\* states dequeued, discarded duplicates included, and never exceeds
\* maxStatesExplored.
C18_RunsTerminateWithinCap ==
  /\ []RunsWithinCap
  /\ Running ~> HasReturned

\* solvePuzzle returned a solution after dequeuing a state it discarded, and
\* then solvePuzzleBFS returned the failure result from the same board with
\* statesExplored at the cap
C18_Witness ==
  /\ Len(runs) = 2
  /\ Solved(1)
  /\ runs[1].strategy = ASTAR
  /\ runs[1].result.statesExplored - 1 > Cardinality(DOMAIN visitedStates)
  /\ Failed(2)
  /\ runs[2].strategy = BFS
  /\ runs[2].result.statesExplored = maxStatesExplored

\* the parent links from a search state up to the start state
RECURSIVE parentLinks(_, _)
parentLinks(nodes, current) ==
  IF nodes[current].parent = 0 THEN 0 ELSE 1 + parentLinks(nodes, nodes[current].parent)

\* C19: on success solutionLength = solution.length = gCost of the goal
\* state = its number of parent links, and the first move of the solution
\* is a move of the start board; on failure solution is null and
\* solutionLength is -1.
C19_ResultIsWellFormed ==
  \A i \in RunIds :
    /\ Solved(i) =>
         LET goalState == runs[i].nodes[runs[i].currentState]
             moves == runs[i].result.solution.moves
         IN  /\ runs[i].result.solutionLength = Len(moves)
             /\ runs[i].result.solutionLength = goalState.gCost
             /\ goalState.gCost = parentLinks(runs[i].nodes, runs[i].currentState)
             /\ \A k \in 1 .. Len(moves) : moves[k] # NoMove
             /\ isGoalState(goalState.board)
    /\ Failed(i) => runs[i].result.solutionLength = -1
    /\ Returned(i) => (runs[i].result.solutionLength = -1 <=> runs[i].result.solution.null)

\* solvePuzzle returned a solution and the next call, solvePuzzleBFS on the
\* same position two moves before the goal, returned two moves
C19_Witness ==
  /\ Len(runs) = 2
  /\ Solved(1) /\ Solved(2)
  /\ runs[1].strategy = ASTAR /\ runs[2].strategy = BFS
  /\ runs[2].result.solutionLength = 2
  /\ Len(getAllPlayerPieces(runs[2].initialBoard)) = 13

(***************************************************************************)
(* Properties of the fingerprint                                           *)
(***************************************************************************)
\* the type of the piece on a square, "undefined" for none
typeAt(b, row, col) == b[row][col].piece.type

\* the same multiset of (piece type, row, column): no two pieces share a
\* square, so this is the same type, or no piece, on every square
samePlacement(a, b) ==
  \A row \in Rows, col \in Cols : typeAt(a, row, col) = typeAt(b, row, col)

\* the two boards differ only in the mover, a pawn on one and a queen on the
\* other, standing on the same square
differByPromotion(a, b) ==
  \E row \in Rows, col \in Cols :
    /\ a[row][col].piece # NoPiece /\ b[row][col].piece # NoPiece
    /\ a[row][col].piece.type = PAWN
    /\ b[row][col].piece.type = QUEEN
    /\ \A r \in Rows, c \in Cols :
         <<r, c>> # <<row, col>> => typeAt(a, r, c) = typeAt(b, r, c)

\* C20: hashBoard gives two boards the same fingerprint if and only if they
\* hold the same multiset of (piece type, row, column), whatever the ids of
\* the pieces and the moves that led to the boards; the board with the
\* mover as a pawn and the board with it as a queen on the same square have
\* different fingerprints.
C20_FingerprintIsTypePlacement ==
  /\ hashBoard(board) = hashBoard(stored) <=> samePlacement(board, stored)
  /\ differByPromotion(stored, board) => hashBoard(board) # hashBoard(stored)

\* seven moves after its fingerprint was stored the pieces are placed as on
\* the stored board, type by type, with two pieces of one type exchanged
C20_Witness ==
  /\ freeMoves = MaxHashMoves
  /\ board # stored
  /\ samePlacement(board, stored)
  /\ hashBoard(board) = hashBoard(stored)
  /\ \E row \in Rows, col \in Cols :
       /\ board[row][col].piece # NoPiece
       /\ board[row][col].piece.id # stored[row][col].piece.id

(***************************************************************************)
(* C21: each search run owns its frontier and its visited set.  With calls *)
(* of one solver object interleaved at their yield points, the visited     *)
(* map a running solvePuzzle call works on holds only the fingerprints of  *)
(* states this call took from its own frontier, and the runs of one        *)
(* strategy, all started on the same layout, return the same solution and  *)
(* the same statesExplored (the ones of the run that ran alone).           *)
(***************************************************************************)
ownFingerprints(run) ==
  {hashBoard(run.nodes[n].board) : n \in 1..Len(run.nodes)}

C21_RunsDoNotInterfere ==
  /\ (active # 0 /\ runs[active].strategy = ASTAR)
       => DOMAIN visitedStates \subseteq ownFingerprints(runs[active])
  /\ \A i, j \in RunIds :
       (Returned(i) /\ Returned(j) /\ runs[i].strategy = runs[j].strategy)
         => /\ runs[i].result.solution = runs[j].result.solution
            /\ runs[i].result.statesExplored = runs[j].result.statesExplored

(***************************************************************************)
(* C22: during any run of either strategy every makeMove call the search   *)
(* issues is accepted.  The calls issued for the state a run has taken     *)
(* from its frontier are makeMove(board, move) for the moves generateMoves *)
(* returns for that board; each yields isValid = true and a resulting      *)
(* board.                                                                  *)
(***************************************************************************)
movesIssued(run) ==
  IF run.currentState = 0 THEN {}
  ELSE Range(generateMoves(run.nodes[run.currentState].board))

C22_SearchMovesAreAccepted ==
  \A i \in RunIds :
    i <= Len(runs) =>
      \A move \in movesIssued(runs[i]) :
        LET moveResult == makeMove(runs[i].nodes[runs[i].currentState].board, move)
        IN  /\ moveResult.isValid
            /\ "resultingBoard" \in DOMAIN moveResult

\* a run of each strategy has expanded states, one of the accepted calls
\* promoted the pawn
C22_Witness ==
  /\ Len(runs) = 2
  /\ runs[1].strategy # runs[2].strategy
  /\ \A i \in 1 .. 2 :
       /\ movesIssued(runs[i]) # {}
       /\ \E n \in 2 .. Len(runs[i].nodes) :
            makeMove(runs[i].nodes[runs[i].nodes[n].parent].board,
                     runs[i].nodes[n].move).isPromotion

(***************************************************************************)
(* C23: analyzeBoardState never throws, and it returns the sentinel        *)
(* whenever its argument is not an array of 4 rows of 4 squares or holds   *)
(* no piece with the mover identity.                                       *)
(***************************************************************************)
\* an array of 4 rows of 4 squares
isBoardValue(value) ==
  /\ isArray(value)
  /\ Len(value.items) = 4
  /\ \A row \in 1 .. 4 :
       /\ isArray(value.items[row])
       /\ Len(value.items[row].items) = 4
       /\ \A col \in 1 .. 4 : value.items[row].items[col].kind = "square"

holdsMover(value) ==
  \E row, col \in 0 .. 3 :
    /\ hasPiece(value, row, col)
    /\ isOriginalPawn(squareAt(value, row, col).square.piece)

C23_AnalysisNeverThrows ==
  analysis.called =>
    /\ ~analysis.outcome.threw
    /\ (~isBoardValue(analysis.input) \/ ~holdsMover(analysis.input))
         => analysis.outcome = Returns(sentinel)

(***************************************************************************)
(* C25: for a board whose mover stands on (r,c), analyzeBoardState reports *)
(* for a queen isPawnPromoted = true, movesToPromotion = 0 and movesToGoal *)
(* = |r-3| + |c-0|, and for a pawn isPawnPromoted = false,                 *)
(* movesToPromotion = r and movesToGoal = r + 3 + c (6 for a pawn standing *)
(* on the goal).                                                           *)
(***************************************************************************)
C25_AnalysisDistances ==
  (analysis.called /\ isBoardValue(analysis.input)) =>
    \A r, c \in 0 .. 3 :
      (/\ hasPiece(analysis.input, r, c)
       /\ isOriginalPawn(squareAt(analysis.input, r, c).square.piece)) =>
        LET mover == squareAt(analysis.input, r, c).square.piece
            result == analysis.outcome.value
        IN  /\ ~analysis.outcome.threw
            /\ mover.type = QUEEN =>
                 /\ result.isPawnPromoted
                 /\ result.movesToPromotion = 0
                 /\ result.movesToGoal = abs(r - 3) + abs(c - 0)
            /\ mover.type = PAWN =>
                 /\ ~result.isPawnPromoted
                 /\ result.movesToPromotion = r
                 /\ result.movesToGoal = r + 3 + c

\* the pawn standing on the goal is reported 6 moves from the goal
C25_Witness ==
  /\ analysis.called
  /\ analysis.input = toValue(winBoard)
  /\ ~analysis.outcome.threw
  /\ analysis.outcome.value.pawnPosition = Pos(3, 0)
  /\ analysis.outcome.value.movesToGoal = 6

occupied(b, squares) ==
  Cardinality({pos \in squares : b[pos.row][pos.col].piece # NoPiece})

\* the estimate of the claim, a piece above the pawn charged aboveUnit
estimate(b, aboveUnit) ==
  LET at == CHOOSE pos \in Positions :
              /\ b[pos.row][pos.col].piece # NoPiece
              /\ isOriginalPawn(b[pos.row][pos.col].piece)
      r == at.row
      c == at.col
  IN  IF b[r][c].piece.type = QUEEN THEN abs(r - 3) + abs(c - 0)
      ELSE r + (3 + c)
             + aboveUnit * occupied(b, {Pos(k, c) : k \in 0 .. r - 1})
             + occupied(b, {Pos(0, k) : k \in 0 .. c - 1})
             + occupied(b, {Pos(k, 0) : k \in 1 .. 3})

\* the claim as stated: one unit for each piece above the pawn
C26_HeuristicUnitPenalties ==
  \A i \in RunIds :
    (i <= Len(runs) /\ runs[i].strategy = ASTAR) =>
      \A n \in 1 .. Len(runs[i].nodes) :
        runs[i].nodes[n].hCost = estimate(runs[i].nodes[n].board, 1)

\* C26 amended: two units for each piece above the pawn
C26_HeuristicPenalties ==
  \A i \in RunIds :
    (i <= Len(runs) /\ runs[i].strategy = ASTAR) =>
      \A n \in 1 .. Len(runs[i].nodes) :
        runs[i].nodes[n].hCost = estimate(runs[i].nodes[n].board, 2)

\* the run on the reference layout: the pawn on (3,3) below three pieces,
\* three pieces on row 0 left of column 3 and two on column 0: 3 + 6 + 6 + 3 + 2
C26_Witness ==
  /\ Len(runs) >= 1
  /\ runs[1].strategy = ASTAR
  /\ runs[1].initialBoard = initializeBoard
  /\ runs[1].nodes[1].hCost = 20
  /\ Len(runs[1].nodes) > 1
  /\ occupied(runs[1].initialBoard, {Pos(k, 3) : k \in 0 .. 2}) = 3

(***************************************************************************)
(* C27: for every move of a solution returned by either strategy, the      *)
(* promotion flag of the move is true exactly when applying the move       *)
(* promotes the pawn to a queen, and the notation of the promoting move    *)
(* carries "=Q".                                                           *)
(***************************************************************************)
C27_PromotionFlagMarksPromotion ==
  \A i \in RunIds :
    Solved(i) =>
      LET moves == runs[i].result.solution.moves
      IN  \A k \in 1 .. Len(moves) :
            LET before == replay(runs[i].initialBoard, SubSeq(moves, 1, k - 1)).board
                promotes == makeMove(before, moves[k]).isPromotion
                files == <<"a", "b", "c", "d">>
                squares == files[moves[k].from.col + 1] \o ToString(4 - moves[k].from.row)
                             \o "-" \o files[moves[k].to.col + 1] \o ToString(4 - moves[k].to.row)
            IN  /\ isPromotionOf(moves[k]) <=> promotes
                /\ promotes => moveToNotation(moves[k]) = squares \o "=Q"

(***************************************************************************)
(* C28: after any sequence of enqueue and dequeue operations, dequeue      *)
(* returns an item whose priority is at most the priority of every item    *)
(* still in the queue, and it returns null exactly when the queue is       *)
(* empty; the state solvePuzzle takes from its frontier has the least      *)
(* fCost of the frontier.                                                  *)
(***************************************************************************)
C28_DequeueReturnsMinimum ==
  /\ pq.last.op = "dequeue" =>
       /\ (pq.last.item = NullItem) <=> pq.last.wasEmpty
       /\ ~pq.last.wasEmpty =>
            \A k \in 1 .. Len(pq.heap) :
              pq.priorities[pq.last.item] <= pq.heap[k].priority
  /\ \A i \in RunIds :
       (i <= Len(runs) /\ runs[i].strategy = ASTAR /\ ~isEmpty(runs[i].openSet)) =>
         LET taken == dequeue(runs[i].openSet).item
         IN  \A k \in 1 .. Len(runs[i].openSet) :
               /\ runs[i].openSet[k].priority = runs[i].nodes[runs[i].openSet[k].item].fCost
               /\ runs[i].nodes[taken].fCost <= runs[i].openSet[k].priority

\* a dequeue on a heap of five items returned an item that was not enqueued
\* first and left larger priorities behind
C28_Witness ==
  /\ pq.last.op = "dequeue"
  /\ ~pq.last.wasEmpty
  /\ Len(pq.heap) = 4
  /\ pq.last.item # 1
  /\ \E k \in 1 .. 4 : pq.heap[k].priority > pq.priorities[pq.last.item]
  /\ \E k \in 1 .. 4 : pq.heap[k].priority = pq.priorities[pq.last.item]

(***************************************************************************)
(* C29: once gameState.isGameWon is true, every square click leaves the    *)
(* whole game state unchanged, and only Reset leaves the won state,        *)
(* restoring the initial game state.                                       *)
(***************************************************************************)
C29_WonGameIgnoresClicks ==
  [][gameState.isGameWon =>
       /\ event'.kind = "click" => gameState' = gameState
       /\ gameState' # gameState =>
            (event'.kind = "reset" /\ gameState' = initializeGameState)]_vars

\* a square other than the goal square, holding a piece, was clicked in the
\* won game: the winning click was the click on the goal square
C29_Witness ==
  /\ gameState.isGameWon
  /\ gameState.isGameOver
  /\ event.kind = "click"
  /\ event.position # Pos(3, 0)
  /\ gameState.board[event.position.row][event.position.col].piece # NoPiece
  /\ gameState.selectedPiece = NoPiece
  /\ Len(gameState.moveHistory) = Len(solution)

(***************************************************************************)
(* C30: while auto-play is on, each timer tick advances the move index by  *)
(* exactly one; the index never exceeds solution.length - 1; when the      *)
(* index is at the last move, the next tick switches auto-play off without *)
(* changing the index; and under fair ticks auto-play that is on           *)
(* eventually is off, a tick switching it off only at the end of the       *)
(* solution.                                                               *)
(***************************************************************************)
C30_AutoPlayStopsAtEnd ==
  /\ [](preview.currentMoveIndex \in -1 .. preview.length - 1)
  /\ [][event'.kind = "tick" =>
          /\ preview.isAutoPlaying
          /\ IF preview.currentMoveIndex = preview.length - 1
             THEN /\ ~preview'.isAutoPlaying
                  /\ preview'.currentMoveIndex = preview.currentMoveIndex
             ELSE /\ preview'.isAutoPlaying
                  /\ preview'.currentMoveIndex = preview.currentMoveIndex + 1]_vars
  /\ preview.isAutoPlaying ~> ~preview.isAutoPlaying

\* a tick has switched auto-play off on the last move of the solution of the
\* reference layout
C30_Witness ==
  /\ preview.open
  /\ preview.length = Len(solution)
  /\ event.kind = "tick"
  /\ ~preview.isAutoPlaying
  /\ preview.currentMoveIndex = preview.length - 1

(***************************************************************************)
(* C31: the solution solvePuzzle returns on the reference layout has the   *)
(* minimum possible number of moves: it is not longer than any line of     *)
(* accepted moves that brings the mover from the reference layout onto     *)
(* the goal, here the replayed line.                                       *)
(***************************************************************************)
C31_AStarSolutionIsShortest ==
  \A i \in 1 .. Len(runs) :
    (/\ runs[i].strategy = ASTAR
     /\ runs[i].initialBoard = initializeBoard
     /\ Solved(i)
     /\ isGoalState(board)) =>
      runs[i].result.solutionLength <= moveIndex + freeMoves

(***************************************************************************)
(* C32: the heuristic is not admissible.  On a board that is no goal board *)
(* and from which one legal move brings the mover onto the goal, the       *)
(* minimum number of moves is 1; calculateHeuristic is 2 on such a board   *)
(* when the mover stands on (2,1), diagonally next to the goal, and 1      *)
(* otherwise.                                                              *)
(***************************************************************************)
oneMoveFromGoal(b) ==
  /\ ~isGoalState(b)
  /\ \E move \in Range(generateMoves(b)) :
       LET moveResult == makeMove(b, move)
       IN  moveResult.isValid /\ isGoalState(moveResult.resultingBoard)

C32_HeuristicOverestimates ==
  oneMoveFromGoal(board) =>
    calculateHeuristic(board) = IF findPawn(board).position = Pos(2, 1) THEN 2 ELSE 1

\* a reachable board one move from the goal whose estimate is larger than 1
C32_Witness ==
  /\ oneMoveFromGoal(board)
  /\ calculateHeuristic(board) > 1

(***************************************************************************)
(* C33: blockingPieces counts the pieces other than the mover that stand   *)
(* on the path the analysis walks, the squares above an unpromoted mover,  *)
(* row 0 left of the mover's column and column 0 from row 1 down to the    *)
(* goal; the mover is not counted, whatever square it stands on.           *)
(***************************************************************************)
C33_MoverIsNotCountedAsBlocking ==
  (/\ analysis.called
   /\ isBoardValue(analysis.input)
   /\ ~analysis.outcome.threw
   /\ analysis.outcome.value.pawnPosition # Null) =>
    LET result == analysis.outcome.value
        pawnPos == result.pawnPosition
        upward == IF result.isPawnPromoted THEN {}
                  ELSE {Pos(row, pawnPos.col) : row \in 0 .. pawnPos.row - 1}
        onTopRow == {Pos(0, col) : col \in 0 .. pawnPos.col - 1}
        toGoal == {Pos(row, 0) : row \in 1 .. 3}
        others(squares) ==
          Cardinality({pos \in squares :
                         hasPiece(analysis.input, pos.row, pos.col) /\ pos # pawnPos})
    IN  result.blockingPieces = others(upward) + others(onTopRow) + others(toGoal)

(***************************************************************************)
(* C34: canPawnReachGoal is sound.  On a board on which it returns true,   *)
(* moves of the mover alone, every other piece standing still, bring the   *)
(* mover onto the goal; and it returns false on a board without mover.     *)
(***************************************************************************)
\* the boards one move of the mover away
moverSuccessors(b) ==
  LET mover == getPawnPiece(b)
      validMoves == getValidMoves(mover, b)
      moved(to) == makeMove(b, [from |-> mover.position, to |-> to, piece |-> mover])
  IN  IF mover = NoPiece THEN {}
      ELSE {moved(to).resultingBoard : to \in {t \in Range(validMoves) : moved(t).isValid}}

\* the boards that moves of the mover alone lead to
RECURSIVE moverClosure(_)
moverClosure(boards) ==
  LET further == boards \cup UNION {moverSuccessors(b) : b \in boards}
  IN  IF further = boards THEN boards ELSE moverClosure(further)

C34_PathCheckIsSound ==
  analysis.called =>
    /\ analysis.outcome => \E b \in moverClosure({analysis.input}) : isGoalState(b)
    /\ getPawnPiece(analysis.input) = NoPiece => ~analysis.outcome

\* the function has returned true on a board that is not won, and the mover
\* alone reaches the goal from it
C34_Witness ==
  /\ analysis.called
  /\ analysis.outcome
  /\ ~isGoalState(analysis.input)
  /\ \E b \in moverClosure({analysis.input}) : isGoalState(b)

(***************************************************************************)
(* C35: boards with equal fingerprints are interchangeable for the search. *)
(* The answer of isGoalState is fixed by the fingerprint, although the     *)
(* test reads the id of the piece on the goal: the goal holds the mover    *)
(* exactly when it holds a piece of type pawn or queen.  And a visited     *)
(* board and a board created later with the same fingerprint get the same  *)
(* answer of isGoalState and have the same set of fingerprints of          *)
(* successor boards.                                                       *)
(***************************************************************************)
successorFingerprints(b) == {hashBoard(next) : next \in successors(b)}

C35_EqualFingerprintsInterchangeable ==
  /\ isGoalState(board) <=> typeAt(board, 3, 0) \in {PAWN, QUEEN}
  /\ hashBoard(board) = hashBoard(stored) =>
       /\ isGoalState(board) = isGoalState(stored)
       /\ successorFingerprints(board) = successorFingerprints(stored)

\* a board created after the visit has the fingerprint of the visited board
\* and other piece ids, and both boards have successors
C35_Witness ==
  /\ hashBoard(board) = hashBoard(stored)
  /\ \E row \in Rows, col \in Cols :
       /\ board[row][col].piece # NoPiece
       /\ board[row][col].piece.id # stored[row][col].piece.id
  /\ successorFingerprints(board) # {}

(***************************************************************************)
(* C36: an unpromoted mover stands in column 3.  On every board of the     *)
(* game and on every board the search creates from the reference layout a  *)
(* piece of type pawn stands in column 3; the mover on the goal square is   *)
(* a queen; and a solution returned for the reference layout holds the      *)
(* promoting move, a pawn moved onto row 0, before its last move, which     *)
(* moves a queen onto the goal.                                             *)
(***************************************************************************)
pawnsInColumn3(b) ==
  \A piece \in PiecesOn(b) : piece.type = PAWN => piece.position.col = 3

promotesBeforeWinning(moves) ==
  /\ Len(moves) >= 2
  /\ \E k \in 1 .. Len(moves) - 1 : moves[k].piece.type = PAWN /\ moves[k].to.row = 0
  /\ moves[Len(moves)].piece.type = QUEEN
  /\ moves[Len(moves)].to = Pos(3, 0)

emptySquares(b) ==
  {pos \in Positions : b[pos.row][pos.col].type # MISSING /\ b[pos.row][pos.col].piece = NoPiece}

idsOn(b) == {piece.id : piece \in PiecesOn(b)}

C37_PiecesAreConserved ==
  /\ Len(getAllPlayerPieces(board)) = 13
  /\ Cardinality(idsOn(board)) = 13
  /\ Cardinality(emptySquares(board)) = 1
  /\ \A move \in Range(generateMoves(board)) : move.to \in emptySquares(board)
  /\ (call.made /\ ~call.direct) =>
       /\ call.result.isValid
       /\ emptySquares(call.board) = {call.move.to}
       /\ emptySquares(call.result.resultingBoard) = {call.move.from}
       /\ idsOn(call.result.resultingBoard) = idsOn(call.board)

\* two moves off the line have been played after the promotion
C37_Witness ==
  /\ call.made /\ ~call.direct
  /\ freeMoves = MaxFreeMoves
  /\ moveIndex >= 14
  /\ board = call.result.resultingBoard
  /\ Len(getAllPlayerPieces(board)) = 13

(***************************************************************************)
(* C38: every move of a knight, bishop, rook or queen is reversible.  For  *)
(* every board of the game and every move the rules offer on it to a       *)
(* piece that is no pawn, the rules offer the moved piece the way back on  *)
(* the resulting board, makeMove accepts it, and the board after it has    *)
(* the fingerprint of the first board.  No move made after a pawn move     *)
(* restores the fingerprint, the way back of the promoted pawn included.   *)
(***************************************************************************)
\* the move of the piece that move has brought to move.to back to move.from
wayBack(after, move) ==
  [from |-> move.to, to |-> move.from, piece |-> after[move.to.row][move.to.col].piece]

isUndone(b, move) ==
  LET after == makeMove(b, move).resultingBoard
      back == wayBack(after, move)
      undone == makeMove(after, back)
  IN  /\ back.to \in Range(getValidMoves(back.piece, after))
      /\ undone.isValid
      /\ hashBoard(undone.resultingBoard) = hashBoard(b)

selectionIsConsistent(state) ==
  LET selectedPiece == state.selectedPiece
  IN  IF selectedPiece = NoPiece THEN state.validMoves = <<>>
      ELSE /\ selectedPiece.position \in Positions
           /\ state.board[selectedPiece.position.row][selectedPiece.position.col].piece
                = selectedPiece
           /\ state.validMoves = getValidMoves(selectedPiece, state.board)

C39_SelectionIsConsistent ==
  /\ []selectionIsConsistent(gameState)
  /\ [][(/\ event'.kind = "click"
         /\ gameState.board[event'.position.row][event'.position.col].piece = NoPiece
         /\ event'.position \notin Range(gameState.validMoves)) =>
          /\ gameState'.selectedPiece = NoPiece
          /\ gameState'.validMoves = <<>>
          /\ gameState'.board = gameState.board
          /\ gameState'.moveHistory = gameState.moveHistory]_vars

\* the promoted mover has been selected by a click and has a destination
C39_Witness ==
  /\ event.kind = "click"
  /\ gameState.selectedPiece # NoPiece
  /\ gameState.selectedPiece.type = QUEEN
  /\ gameState.selectedPiece.position = event.position
  /\ Len(gameState.validMoves) > 0
  /\ Len(gameState.moveHistory) >= 14

(***************************************************************************)
(* C40: moveHistory replays to the board.  After any clicks, makeMove      *)
(* accepts the moves of gameState.moveHistory applied in order from the    *)
(* initial board and the last board is gameState.board; a click that       *)
(* changes the board appends one move to moveHistory and any other click   *)
(* leaves moveHistory as it was; and isGameWon and isGameOver are both     *)
(* true exactly when the mover stands on the goal square of the board.     *)
(***************************************************************************)
moverOnGoal(b) ==
  /\ b[3][0].type = GOAL
  /\ b[3][0].piece # NoPiece
  /\ isOriginalPawn(b[3][0].piece)

historyReplays(state) ==
  LET replayed == replay(initializeBoard, state.moveHistory)
  IN  /\ replayed.accepted
      /\ replayed.board = state.board
      /\ state.isGameWon = moverOnGoal(state.board)
      /\ state.isGameOver = moverOnGoal(state.board)

C40_HistoryReplaysToBoard ==
  /\ []historyReplays(gameState)
  /\ [][event'.kind = "click" =>
          IF gameState'.board # gameState.board
          THEN /\ Len(gameState'.moveHistory) = Len(gameState.moveHistory) + 1
               /\ SubSeq(gameState'.moveHistory, 1, Len(gameState.moveHistory))
                    = gameState.moveHistory
          ELSE gameState'.moveHistory = gameState.moveHistory]_vars

\* the game has been won by the click on the goal square with the last move
\* of the line
C40_Witness ==
  /\ event.kind = "click"
  /\ event.position = Pos(3, 0)
  /\ gameState.isGameWon /\ gameState.isGameOver
  /\ moverOnGoal(gameState.board)
  /\ Len(gameState.moveHistory) = Len(solution)
  /\ replay(initializeBoard, gameState.moveHistory).board = gameState.board
====
